---- MODULE Spec2Model ----
(***************************************************************************)
(* A model of the schema-driven Thrift client of package connector:        *)
(* the type registry built by NewService (service.go) and the dynamic      *)
(* codec and call framing of Client (client.go, the last of the versions   *)
(* the file holds: lines 536-1039).                                        *)
(***************************************************************************)
EXTENDS Integers, Sequences, FiniteSets, TLC

VARIABLES
    defultTypeNameMap,  \* the package-level map of service.go:53, shared by every Service
    services,           \* the Services NewService has returned so far
    lastNew,            \* what the latest NewService call was given and returned
    clients,            \* the Clients NewClient has returned, by name
    lastCall,           \* what the latest Client.Call was given, did and returned
    crashed,            \* the process has panicked
    codecCase,          \* codec runs: the schema of the writer, the type and the value
    codecPhase,         \* codec runs: "input", "written" or "read"
    written,            \* codec runs: what WriteValue wrote and returned
    readback,           \* codec runs: what ReadValue returned for the wire written
    goroutines,         \* concurrent runs: each goroutine's Call, its copy of the Client
    sockets             \* concurrent runs: what each socket carried, each way

vars == <<defultTypeNameMap, services, lastNew, clients, lastCall, crashed,
          codecCase, codecPhase, written, readback, goroutines, sockets>>

serviceVars == <<defultTypeNameMap, services, lastNew>>

callVars == <<clients, lastCall, crashed>>

codecVars == <<codecCase, codecPhase, written, readback>>

raceVars == <<goroutines, sockets>>

(***************************************************************************)
(* Wire tags and the built-in name table.                                  *)
(***************************************************************************)
\* service.go:53-69: the initial contents of the package-level map.
BuiltinTypeNameMap ==
    [n \in {"stop", "void", "bool", "byte", "double", "i16", "i32", "i64", "string",
            "struct", "map", "set", "list", "utf8", "utf16"} |->
        CASE n = "stop" -> "STOP"
          [] n = "void" -> "VOID"
          [] n = "bool" -> "BOOL"
          [] n = "byte" -> "BYTE"
          [] n = "double" -> "DOUBLE"
          [] n = "i16" -> "I16"
          [] n = "i32" -> "I32"
          [] n = "i64" -> "I64"
          [] n = "string" -> "STRING"
          [] n = "struct" -> "STRUCT"
          [] n = "map" -> "MAP"
          [] n = "set" -> "SET"
          [] n = "list" -> "LIST"
          [] n = "utf8" -> "UTF8"
          [] n = "utf16" -> "UTF16"]

BuiltinNames == DOMAIN BuiltinTypeNameMap

\* parser.Type: a type reference; ValueType is NoType where the reference has none.
NoType == [Name |-> ""]
Ty(name) == [Name |-> name, ValueType |-> NoType]
ListOf(t) == [Name |-> "list", ValueType |-> t]
SetOf(t) == [Name |-> "set", ValueType |-> t]
MapOf(t) == [Name |-> "map", ValueType |-> t]

\* parser.Field
Field(id, name, type, optional) ==
    [ID |-> id, Name |-> name, Type |-> type, Optional |-> optional]

\* a Go map assignment m[k] = v
MapSet(m, k, v) == [x \in DOMAIN m \cup {k} |-> IF x = k THEN v ELSE m[x]]

\* a Go map assignment m[k] = v for every k of ks
MapSetAll(m, ks, v) == [x \in DOMAIN m \cup ks |-> IF x \in ks THEN v ELSE m[x]]

(***************************************************************************)
(* The parsed schema documents (parser.Thrift) the model runs on.          *)
(***************************************************************************)
NoFields == <<>>
EmptyMap == [x \in {} |-> x]

\* parser.Struct
Struct(name, fields) == [Name |-> name, Fields |-> fields]

\* parser.Method
Method(name, returnType, arguments, exceptions) ==
    [Name |-> name, ReturnType |-> returnType, Arguments |-> arguments,
     Exceptions |-> exceptions]

UserStruct ==
    Struct("User", <<Field(1, "id", Ty("MyId"), FALSE),
                     Field(2, "name", Ty("string"), TRUE),
                     Field(4, "color", Ty("Color"), TRUE)>>)

\* User as a peer with a later schema declares it: fields 3, 5, 6 and 7 are new
PeerUserStruct ==
    Struct("User", <<Field(1, "id", Ty("MyId"), FALSE),
                     Field(3, "extra", Ty("i32"), TRUE),
                     Field(2, "name", Ty("string"), TRUE),
                     Field(5, "pt", Ty("Point"), TRUE),
                     Field(6, "tags", ListOf(Ty("string")), TRUE),
                     Field(7, "scores", MapOf(Ty("i16")), TRUE),
                     Field(4, "color", Ty("Color"), TRUE)>>)

PointStruct ==
    Struct("Point", <<Field(1, "x", Ty("i16"), FALSE),
                      Field(2, "y", Ty("i32"), TRUE)>>)

NotFoundException == Struct("NotFound", <<Field(1, "msg", Ty("string"), FALSE)>>)

DeniedException == Struct("Denied", <<Field(1, "code", Ty("i32"), FALSE)>>)

SvcMethods ==
    [m \in {"get", "put", "ping", "hush", "swap"} |->
        CASE m = "get" ->
               Method("get", Ty("User"), <<Field(1, "id", Ty("MyId"), FALSE)>>,
                      <<Field(1, "nf", Ty("NotFound"), FALSE),
                        Field(2, "dn", Ty("Denied"), FALSE)>>)
          [] m = "put" ->
               Method("put", Ty("i32"),
                      <<Field(1, "user", Ty("User"), FALSE),
                        Field(2, "n", Ty("i32"), FALSE)>>,
                      <<Field(1, "dn", Ty("Denied"), FALSE)>>)
          [] m = "ping" -> Method("ping", Ty("void"), <<>>, <<>>)
          [] m = "hush" -> Method("hush", NoType, <<>>, <<>>)
          [] m = "swap" ->
               Method("swap", Ty("i32"),
                      <<Field(2, "b", ListOf(MapOf(Ty("i16"))), FALSE),
                        Field(1, "a", Ty("string"), FALSE)>>,
                      <<>>)]

\* parser.Thrift, by the name the model gives the document
Thrifts ==
    [id \in {"main", "peer", "chain", "broken", "borrow", "clash", "plain"} |->
        CASE id = "main" ->
               [Enums |-> {"Color"},
                Structs |-> [n \in {"User", "Point"} |->
                                IF n = "User" THEN UserStruct ELSE PointStruct],
                Exceptions |-> [n \in {"NotFound", "Denied"} |->
                                IF n = "NotFound" THEN NotFoundException
                                                  ELSE DeniedException],
                Typedefs |-> [n \in {"MyId", "Owner"} |->
                                IF n = "MyId" THEN Ty("i64") ELSE Ty("User")],
                Services |-> [n \in {"Svc"} |-> [Name |-> "Svc", Methods |-> SvcMethods]]]
          [] id = "peer" ->
               [Enums |-> {"Color"},
                Structs |-> [n \in {"User", "Point"} |->
                                IF n = "User" THEN PeerUserStruct ELSE PointStruct],
                Exceptions |-> EmptyMap,
                Typedefs |-> [n \in {"MyId"} |-> Ty("i64")],
                Services |-> [n \in {"Svc"} |-> [Name |-> "Svc", Methods |-> EmptyMap]]]
          [] id = "chain" ->
               [Enums |-> {},
                Structs |-> EmptyMap,
                Exceptions |-> EmptyMap,
                Typedefs |-> [n \in {"A", "B", "C"} |->
                                CASE n = "A" -> Ty("B")
                                  [] n = "B" -> Ty("C")
                                  [] n = "C" -> Ty("i64")],
                Services |-> [n \in {"Svc"} |-> [Name |-> "Svc", Methods |-> EmptyMap]]]
          [] id = "broken" ->
               [Enums |-> {"Level"},
                Structs |-> EmptyMap,
                Exceptions |-> EmptyMap,
                Typedefs |-> [n \in {"Bad", "Lvl"} |->
                                IF n = "Bad" THEN Ty("Missing") ELSE Ty("Level")],
                Services |-> [n \in {"Svc"} |-> [Name |-> "Svc", Methods |-> EmptyMap]]]
          [] id = "borrow" ->
               [Enums |-> {},
                Structs |-> EmptyMap,
                Exceptions |-> [n \in {"Denied"} |-> DeniedException],
                Typedefs |-> [n \in {"Ref"} |-> Ty("User")],
                Services |-> [n \in {"Svc"} |-> [Name |-> "Svc", Methods |-> EmptyMap]]]
          [] id = "clash" ->
               [Enums |-> {"User"},
                Structs |-> [n \in {"Point"} |-> PointStruct],
                Exceptions |-> EmptyMap,
                Typedefs |-> [n \in {"Num"} |-> Ty("i32")],
                Services |-> [n \in {"Svc"} |-> [Name |-> "Svc", Methods |-> EmptyMap]]]
          [] id = "plain" ->
               [Enums |-> {},
                Structs |-> [n \in {"Point"} |-> PointStruct],
                Exceptions |-> EmptyMap,
                Typedefs |-> EmptyMap,
                Services |-> [n \in {"Svc"} |-> [Name |-> "Svc", Methods |-> EmptyMap]]]]

\* the documents NewService is called with
ThriftIds == {"main", "chain", "broken", "borrow", "clash", "plain"}

\* the service names NewService is called with
ServiceNames == {"Svc", "Nope"}

\* the names a schema document declares
Declared(thrift) ==
    thrift.Enums \cup DOMAIN thrift.Structs \cup DOMAIN thrift.Exceptions
        \cup DOMAIN thrift.Typedefs

\* every type name of the model
AllNames ==
    BuiltinNames \cup {"Missing"} \cup UNION {Declared(Thrifts[id]) : id \in ThriftIds}

\* the orders in which a range over a Go map can visit its keys
Orders(keys) ==
    {o \in [1..Cardinality(keys) -> keys] : \A i, j \in DOMAIN o : o[i] = o[j] => i = j}

(***************************************************************************)
(* service.go: NewService and Service.LookupType.                          *)
(***************************************************************************)
\* service.go:71-76
LookupType(types, name) == IF name \in DOMAIN types THEN types[name] ELSE "STOP"

\* service.go:45: types[name], ok = types[thriftType.Name]; a failed lookup still
\* assigns the zero tag (STOP) to types[name]
TypedefStep(types, name, target) ==
    IF target \in DOMAIN types
    THEN [types |-> MapSet(types, name, types[target]), ok |-> TRUE]
    ELSE [types |-> MapSet(types, name, "STOP"), ok |-> FALSE]

\* service.go:43-48: the typedefs, visited in the order the range yields them; the
\* first failed lookup returns
RECURSIVE TypedefLoop(_, _, _, _)
TypedefLoop(types, typedefs, order, i) ==
    IF i > Len(order)
    THEN [types |-> types, ok |-> TRUE, missing |-> ""]
    ELSE LET step == TypedefStep(types, order[i], typedefs[order[i]].Name)
         IN  IF step.ok
             THEN TypedefLoop(step.types, typedefs, order, i + 1)
             ELSE [types |-> step.types, ok |-> FALSE,
                   missing |-> typedefs[order[i]].Name]

\* service.go:23-30: exceptions first, structs over them
ServiceStructs(thrift) ==
    [n \in DOMAIN thrift.Exceptions \cup DOMAIN thrift.Structs |->
        IF n \in DOMAIN thrift.Structs THEN thrift.Structs[n] ELSE thrift.Exceptions[n]]

\* service.go:32-42: types is the package-level map itself, so the overlay of the
\* enum, struct and exception names is written into it
OverlayNames(types, thrift) ==
    MapSetAll(MapSetAll(MapSetAll(types, thrift.Enums, "I32"),
                        DOMAIN thrift.Structs, "STRUCT"),
              DOMAIN thrift.Exceptions, "STRUCT")

NoService == [thrift |-> "none", name |-> ""]

\* service.go:16-51: what NewService returns and what it leaves in the package-level
\* map, for the order in which the typedefs are visited
NewServiceResult(types, id, name, order) ==
    LET thrift == Thrifts[id]
    IN  IF name \notin DOMAIN thrift.Services
        THEN [types |-> types, service |-> NoService, err |-> "serviceNotExists"]
        ELSE LET loop == TypedefLoop(OverlayNames(types, thrift), thrift.Typedefs, order, 1)
             IN  IF loop.ok
                 THEN [types |-> loop.types,
                       service |-> [thrift |-> id, name |-> name], err |-> "nil"]
                 ELSE [types |-> loop.types, service |-> NoService, err |-> "typeNotFound"]

NewService(id, name, order) ==
    LET r == NewServiceResult(defultTypeNameMap, id, name, order)
    IN  /\ defultTypeNameMap' = r.types
        /\ services' = IF r.err = "nil" THEN services \cup {r.service} ELSE services
        /\ lastNew' = [thrift |-> id, name |-> name, order |-> order,
                       before |-> defultTypeNameMap, service |-> r.service,
                       err |-> r.err]

InitService ==
    /\ defultTypeNameMap = BuiltinTypeNameMap
    /\ services = {}
    /\ lastNew = [thrift |-> "none", name |-> "", order |-> <<>>,
                  before |-> BuiltinTypeNameMap, service |-> NoService, err |-> "nil"]

(***************************************************************************)
(* Generic values (Go's interface{} values) by dynamic type.  A float64 is *)
(* held as a count of quarters (q = 6 is 1.5): every double of the model   *)
(* is a multiple of 1/4.                                                   *)
(***************************************************************************)
VNil == [k |-> "nil"]
VBool(b) == [k |-> "bool", b |-> b]
VInt(kind, i) == [k |-> kind, i |-> i]

\* an integer outside int32, in two words: it is hi * 2^32 + lo, with lo its low 32
\* bits read as a signed integer.  An integer inside int32 has the high word 0 and
\* is the VInt of its low word.
VWide(kind, hi, lo) == [k |-> kind, i |-> lo, hi |-> hi]

\* the high word of an integer value or token
HighWord(r) == IF "hi" \in DOMAIN r THEN r.hi ELSE 0
VFloat(q) == [k |-> "float64", q |-> q]
VStr(s) == [k |-> "string", s |-> s]
VList(l) == [k |-> "list", l |-> l]
VMap(m) == [k |-> "map", m |-> m]

SignedKinds == {"int", "int8", "int16", "int32", "int64"}
UnsignedKinds == {"uint", "uint8", "uint16", "uint32", "uint64"}
FloatKinds == {"float32", "float64"}

\* the characters of the string values of the model
Chars(s) ==
    CASE s = "" -> <<>>
      [] s = "42" -> <<"4", "2">>
      [] s = "-7" -> <<"-", "7">>
      [] s = "+5" -> <<"+", "5">>
      [] s = "abc" -> <<"a", "b", "c">>
      [] s = "4a" -> <<"4", "a">>
      [] s = "-" -> <<"-">>
      [] s = "1.5" -> <<"1", ".", "5">>
      [] s = "40000" -> <<"4", "0", "0", "0", "0">>
      [] s = "-32769" -> <<"-", "3", "2", "7", "6", "9">>
      [] s = "4294967297" -> <<"4", "2", "9", "4", "9", "6", "7", "2", "9", "7">>
      [] s = "2147483648" -> <<"2", "1", "4", "7", "4", "8", "3", "6", "4", "8">>
      [] s = "-2147483649" -> <<"-", "2", "1", "4", "7", "4", "8", "3", "6", "4", "9">>
      [] s = "bob" -> <<"b", "o", "b">>
      [] s = "no user" -> <<"n", "o", " ", "u", "s", "e", "r">>
      [] OTHER -> <<"?">>

DigitValue(c) ==
    CASE c = "0" -> 0 [] c = "1" -> 1 [] c = "2" -> 2 [] c = "3" -> 3 [] c = "4" -> 4
      [] c = "5" -> 5 [] c = "6" -> 6 [] c = "7" -> 7 [] c = "8" -> 8 [] c = "9" -> 9
      [] OTHER -> -1

IsDigits(cs) == Len(cs) > 0 /\ \A i \in DOMAIN cs : DigitValue(cs[i]) >= 0

RECURSIVE DigitsValue(_)
DigitsValue(cs) ==
    IF cs = <<>> THEN 0
    ELSE 10 * DigitsValue(SubSeq(cs, 1, Len(cs) - 1)) + DigitValue(cs[Len(cs)])

\* the decimal digits from the i-th on, added to the number h * 2^32 + m * 2^16 + l
\* times ten for each: the result in three limbs, the lower two of 16 bits
RECURSIVE DigitsLimbs(_, _, _, _, _)
DigitsLimbs(cs, i, h, m, l) ==
    IF i > Len(cs) THEN <<h, m, l>>
    ELSE DigitsLimbs(cs, i + 1,
                     10 * h + (10 * m + (10 * l + DigitValue(cs[i])) \div 65536) \div 65536,
                     (10 * m + (10 * l + DigitValue(cs[i])) \div 65536) % 65536,
                     (10 * l + DigitValue(cs[i])) % 65536)

\* the number of three limbs in two words: the high word and the low 32 bits signed
Words(limbs) ==
    IF limbs[2] >= 32768
    THEN [hi |-> limbs[1] + 1, lo |-> (limbs[2] - 65536) * 65536 + limbs[3]]
    ELSE [hi |-> limbs[1], lo |-> limbs[2] * 65536 + limbs[3]]

\* the negative of a number in two words
Negate(w) ==
    IF w.lo = -2147483647 - 1 THEN [hi |-> 1 - w.hi, lo |-> w.lo]
    ELSE [hi |-> -w.hi, lo |-> -w.lo]

\* strconv.ParseInt(s, 10, 0), client.go:979, 997, 1015: an optional sign, then one
\* or more decimal digits.  (The strings of the model are too short to leave int64.)
\* The integer parsed is hi * 2^32 + v.
ParseInt(s) ==
    LET cs == Chars(s)
        signed == cs # <<>> /\ cs[1] \in {"+", "-"}
        digits == IF signed THEN Tail(cs) ELSE cs
        w == IF signed /\ cs[1] = "-" THEN Negate(Words(DigitsLimbs(digits, 1, 0, 0, 0)))
                                      ELSE Words(DigitsLimbs(digits, 1, 0, 0, 0))
    IN  IF IsDigits(digits)
        THEN [v |-> w.lo, hi |-> w.hi, ok |-> TRUE]
        ELSE [v |-> 0, hi |-> 0, ok |-> FALSE]

\* the quarters a decimal fraction stands for (.5, .25, .75, .0)
FracQuarters(cs) ==
    CASE cs = <<"5">> -> 2
      [] cs = <<"2", "5">> -> 1
      [] cs = <<"7", "5">> -> 3
      [] OTHER -> 0

\* strconv.ParseFloat(s, 64), client.go:1033, on the decimal forms [sign]digits and
\* [sign]digits.digits
ParseFloat(s) ==
    LET cs == Chars(s)
        signed == cs # <<>> /\ cs[1] \in {"+", "-"}
        body == IF signed THEN Tail(cs) ELSE cs
        dots == {i \in DOMAIN body : body[i] = "."}
        whole == IF dots = {} THEN body
                 ELSE SubSeq(body, 1, (CHOOSE i \in dots : TRUE) - 1)
        frac == IF dots = {} THEN <<>>
                ELSE SubSeq(body, (CHOOSE i \in dots : TRUE) + 1, Len(body))
        okForm == /\ Cardinality(dots) <= 1
                  /\ IsDigits(whole)
                  /\ (dots # {} => IsDigits(frac))
        mag == 4 * DigitsValue(whole) + FracQuarters(frac)
    IN  IF okForm
        THEN [v |-> IF signed /\ cs[1] = "-" THEN -mag ELSE mag, ok |-> TRUE]
        ELSE [v |-> 0, ok |-> FALSE]

\* Go's conversion of a float to an integer: the fraction is discarded
Truncate(q) == IF q >= 0 THEN q \div 4 ELSE -((-q) \div 4)

\* Go's conversion to int16: the low 16 bits, signed.  v is the low word of the
\* integer; the high word weighs a multiple of 2^16.
ToInt16(v) == (((v % 65536) + 32768) % 65536) - 32768

\* Go's conversion to int32: the low 32 bits, signed.  v is the low word of the
\* integer, which is those bits; the high word is dropped.
ToInt32(v) == v

\* Go's conversion to int64: every integer of the model lies inside int64
ToInt64(v) == v

\* reflect's Int(), Uint() or Float() of the value, as an integer: the switch on the
\* dynamic type that Int16, Int32 and Int64 share (client.go:971-985)
IntegerOf(value) ==
    CASE value.k \in FloatKinds -> [v |-> Truncate(value.q), hi |-> 0, ok |-> TRUE]
      [] value.k \in SignedKinds -> [v |-> value.i, hi |-> HighWord(value), ok |-> TRUE]
      [] value.k \in UnsignedKinds -> [v |-> value.i, hi |-> HighWord(value), ok |-> TRUE]
      [] value.k = "string" -> ParseInt(value.s)
      [] OTHER -> [v |-> 0, hi |-> 0, ok |-> FALSE]

\* an Int16 that keeps the integer whatever its size
Int16_Unwrapped(value) == IntegerOf(value)

\* client.go:970-986
Int16(value) ==
    LET r == IntegerOf(value) IN [v |-> IF r.ok THEN ToInt16(r.v) ELSE 0, ok |-> r.ok]

\* an Int32 that refuses an integer outside int32
Int32_Checked(value) ==
    LET r == IntegerOf(value)
    IN  [v |-> IF r.ok /\ r.hi = 0 THEN r.v ELSE 0, ok |-> r.ok /\ r.hi = 0]

\* client.go:988-1004
Int32(value) ==
    LET r == IntegerOf(value) IN [v |-> IF r.ok THEN ToInt32(r.v) ELSE 0, ok |-> r.ok]

\* client.go:1006-1022: both words are kept
Int64(value) ==
    LET r == IntegerOf(value)
    IN  [v |-> IF r.ok THEN ToInt64(r.v) ELSE 0, hi |-> IF r.ok THEN r.hi ELSE 0,
         ok |-> r.ok]

\* client.go:1024-1040.  (The integers the model converts to a double lie in int32.)
Float64(value) ==
    CASE value.k \in FloatKinds -> [v |-> value.q, ok |-> TRUE]
      [] value.k \in SignedKinds -> [v |-> 4 * value.i, ok |-> TRUE]
      [] value.k \in UnsignedKinds -> [v |-> 4 * value.i, ok |-> TRUE]
      [] value.k = "string" -> ParseFloat(value.s)
      [] OTHER -> [v |-> 0, ok |-> FALSE]

(***************************************************************************)
(* The write path.  An output codec call appends one token; a write        *)
(* operation yields the set of its possible results [out, err]: the tokens *)
(* written and the error returned ("nil" for none).  The set has several   *)
(* members where a range over a Go map decides the order.                  *)
(***************************************************************************)
\* the Service a Client holds: the parsed service, Structs and Types (service.go:10-14)
ServiceOf(types, service) ==
    [Name |-> service.name,
     Methods |-> Thrifts[service.thrift].Services[service.name].Methods,
     Structs |-> ServiceStructs(Thrifts[service.thrift]),
     Types |-> types]

WOk(out) == {[out |-> out, err |-> "nil"]}
WErr(e) == {[out |-> <<>>, err |-> e]}

\* "if err = first; err != nil { return err }" and then the second
After(first, second) ==
    UNION {IF r.err # "nil" THEN {r}
           ELSE {[out |-> r.out \o w.out, err |-> w.err] : w \in second} : r \in first}

RECURSIVE WriteValue(_, _, _)
RECURSIVE WriteStruct(_, _, _)
RECURSIVE WriteStructFields(_, _, _, _)
RECURSIVE WriteMap(_, _, _)
RECURSIVE WriteMapEntries(_, _, _, _, _)
RECURSIVE WriteList(_, _, _)
RECURSIVE WriteListElems(_, _, _, _)
RECURSIVE WriteField(_, _, _)

\* client.go:915-926
WriteField(svc, argument, arg) ==
    After(WOk(<<[op |-> "FieldBegin", name |-> argument.Name,
                 tag |-> LookupType(svc.Types, argument.Type.Name),
                 id |-> argument.ID]>>),
          After(WriteValue(svc, argument.Type, arg), WOk(<<[op |-> "FieldEnd"]>>)))

\* a WriteStruct that passes over every absent field
AbsentFieldFails_Never(field) == FALSE

\* client.go:856: an absent field is an error unless it is optional
AbsentFieldFails(field) == ~field.Optional

\* client.go:849-867: the declared fields from the i-th on, the stop marker and the
\* struct end
WriteStructFields(svc, fields, i, mapValue) ==
    IF i > Len(fields)
    THEN WOk(<<[op |-> "FieldStop"], [op |-> "StructEnd"]>>)
    ELSE IF fields[i].Name \in DOMAIN mapValue
         THEN After(WriteField(svc, fields[i], mapValue[fields[i].Name]),
                    WriteStructFields(svc, fields, i + 1, mapValue))
         ELSE IF AbsentFieldFails(fields[i])
              THEN WErr("fieldRequired")
              ELSE WriteStructFields(svc, fields, i + 1, mapValue)

\* client.go:836-868
WriteStruct(svc, parserType, value) ==
    IF parserType.Name \notin DOMAIN svc.Structs THEN WErr("structNotFound")
    ELSE IF value.k # "map" THEN WErr("notAMap")
    ELSE After(WOk(<<[op |-> "StructBegin",
                      name |-> svc.Structs[parserType.Name].Name]>>),
               WriteStructFields(svc, svc.Structs[parserType.Name].Fields, 1, value.m))

\* client.go:880-887: the entries from the i-th of the order on
WriteMapEntries(svc, valueType, mapValue, order, i) ==
    IF i > Len(order) THEN WOk(<<>>)
    ELSE After(WOk(<<[op |-> "String", s |-> order[i]]>>),
               After(WriteValue(svc, valueType, mapValue[order[i]]),
                     WriteMapEntries(svc, valueType, mapValue, order, i + 1)))

\* client.go:870-892
WriteMap(svc, parserType, value) ==
    IF value.k # "map" THEN WErr("notAMap")
    ELSE IF parserType.ValueType = NoType THEN WErr("panic")
    ELSE UNION {After(WOk(<<[op |-> "MapBegin", ktag |-> "STRING",
                             vtag |-> LookupType(svc.Types, parserType.ValueType.Name),
                             size |-> Cardinality(DOMAIN value.m)]>>),
                      After(WriteMapEntries(svc, parserType.ValueType, value.m, order, 1),
                            WOk(<<[op |-> "MapEnd"]>>)))
                : order \in Orders(DOMAIN value.m)}

\* client.go:904-908: the elements from the i-th on
WriteListElems(svc, valueType, listValue, i) ==
    IF i > Len(listValue) THEN WOk(<<>>)
    ELSE After(WriteValue(svc, valueType, listValue[i]),
               WriteListElems(svc, valueType, listValue, i + 1))

\* client.go:894-913
WriteList(svc, parserType, value) ==
    IF value.k # "list" THEN WErr("notAList")
    ELSE IF parserType.ValueType = NoType THEN WErr("panic")
    ELSE After(WOk(<<[op |-> "ListBegin",
                      etag |-> LookupType(svc.Types, parserType.ValueType.Name),
                      size |-> Len(value.l)]>>),
               After(WriteListElems(svc, parserType.ValueType, value.l, 1),
                     WOk(<<[op |-> "ListEnd"]>>)))

\* OutputProtocol.WriteI64: the token of a 64-bit integer
I64Token(r) ==
    IF r.hi = 0 THEN [op |-> "I64", i |-> r.v] ELSE [op |-> "I64", i |-> r.v, hi |-> r.hi]

\* client.go:928-968
WriteValue(svc, parserType, value) ==
    LET tag == LookupType(svc.Types, parserType.Name)
    IN  CASE tag = "BOOL" ->
               IF value.k = "bool" THEN WOk(<<[op |-> "Bool", b |-> value.b]>>)
               ELSE WErr("cannotConvert")
          [] tag = "BYTE" ->
               IF value.k = "uint8" THEN WOk(<<[op |-> "Byte", i |-> value.i]>>)
               ELSE WErr("cannotConvert")
          [] tag = "DOUBLE" ->
               IF Float64(value).ok THEN WOk(<<[op |-> "Double", q |-> Float64(value).v]>>)
               ELSE WErr("cannotConvert")
          [] tag = "I16" ->
               IF Int16(value).ok THEN WOk(<<[op |-> "I16", i |-> Int16(value).v]>>)
               ELSE WErr("cannotConvert")
          [] tag = "I32" ->
               IF Int32(value).ok THEN WOk(<<[op |-> "I32", i |-> Int32(value).v]>>)
               ELSE WErr("cannotConvert")
          [] tag = "I64" ->
               IF Int64(value).ok THEN WOk(<<I64Token(Int64(value))>>)
               ELSE WErr("cannotConvert")
          [] tag = "STRING" ->
               IF value.k = "string" THEN WOk(<<[op |-> "String", s |-> value.s]>>)
               ELSE WErr("cannotConvert")
          [] tag = "STRUCT" -> WriteStruct(svc, parserType, value)
          [] tag = "MAP" -> WriteMap(svc, parserType, value)
          [] tag = "LIST" -> WriteList(svc, parserType, value)
          [] OTHER -> WErr("unsupportedType")

\* a WriteRequest that takes every argument from the first position
ArgumentOf_First(args, argument) == args[1]

\* client.go:819: arg := args[argument.ID-1]; positions count from 1 in args
ArgumentOf(args, argument) == args[argument.ID]

\* client.go:815-824: the declared arguments from the i-th on
RECURSIVE WriteArguments(_, _, _, _)
WriteArguments(svc, arguments, i, args) ==
    IF i > Len(arguments) THEN WOk(<<>>)
    ELSE IF arguments[i].ID > Len(args) THEN WErr("argNotExists")
    ELSE After(WriteField(svc, arguments[i], ArgumentOf(args, arguments[i])),
               WriteArguments(svc, arguments, i + 1, args))

\* client.go:805-834
WriteRequest(svc, methodName, args) ==
    IF methodName \notin DOMAIN svc.Methods THEN WErr("methodNotExists")
    ELSE After(WOk(<<[op |-> "StructBegin",
                      name |-> svc.Name \o svc.Methods[methodName].Name \o "Args"]>>),
               After(WriteArguments(svc, svc.Methods[methodName].Arguments, 1, args),
                     WOk(<<[op |-> "FieldStop"], [op |-> "StructEnd"]>>)))

(***************************************************************************)
(* The wire.  NewClient binds both codecs to the binary protocol           *)
(* (client.go:560-565), in which struct begin and end, field end, map end, *)
(* list end and message end put nothing on the wire and their reads        *)
(* consume nothing and cannot fail.  The wire holds the other tokens; a    *)
(* read that finds the wire empty, or a token of another kind at its       *)
(* head, returns the codec's error.                                        *)
(***************************************************************************)
EmptyFrames == {"StructBegin", "StructEnd", "FieldEnd", "MapEnd", "ListEnd", "MessageEnd"}

RECURSIVE Wire(_)
Wire(out) ==
    IF out = <<>> THEN <<>>
    ELSE IF out[1].op \in EmptyFrames THEN Wire(Tail(out))
    ELSE <<out[1]>> \o Wire(Tail(out))

HasHead(toks, op) == toks # <<>> /\ toks[1].op = op

(***************************************************************************)
(* The read path.  A read operation returns [val, rest, err]: the value,   *)
(* the wire left to read and the error ("nil" for none).                   *)
(***************************************************************************)
ROk(val, rest) == [val |-> val, rest |-> rest, err |-> "nil"]
RErr(rest, e) == [val |-> VNil, rest |-> rest, err |-> e]

\* InputProtocol.ReadFieldBegin: the stop marker reads as tag STOP, index 0
ReadFieldBegin(toks) ==
    IF HasHead(toks, "FieldBegin")
    THEN [tag |-> toks[1].tag, id |-> toks[1].id, rest |-> Tail(toks), err |-> "nil"]
    ELSE IF HasHead(toks, "FieldStop")
    THEN [tag |-> "STOP", id |-> 0, rest |-> Tail(toks), err |-> "nil"]
    ELSE [tag |-> "STOP", id |-> 0, rest |-> toks, err |-> "protocol"]

\* the primitive reads of client.go:683-696, with the Go type each returns.  A
\* string whose length prefix is negative (token StringBadLength) makes ReadString
\* return an error after it consumed the prefix.
ReadPrimitive(tag, toks) ==
    CASE tag = "BOOL" /\ HasHead(toks, "Bool") -> ROk(VBool(toks[1].b), Tail(toks))
      [] tag = "BYTE" /\ HasHead(toks, "Byte") -> ROk(VInt("uint8", toks[1].i), Tail(toks))
      [] tag = "DOUBLE" /\ HasHead(toks, "Double") -> ROk(VFloat(toks[1].q), Tail(toks))
      [] tag = "I16" /\ HasHead(toks, "I16") -> ROk(VInt("int16", toks[1].i), Tail(toks))
      [] tag = "I32" /\ HasHead(toks, "I32") -> ROk(VInt("int32", toks[1].i), Tail(toks))
      [] tag = "I64" /\ HasHead(toks, "I64") ->
           ROk(IF HighWord(toks[1]) = 0 THEN VInt("int64", toks[1].i)
               ELSE VWide("int64", toks[1].hi, toks[1].i), Tail(toks))
      [] tag = "STRING" /\ HasHead(toks, "String") -> ROk(VStr(toks[1].s), Tail(toks))
      [] tag = "STRING" /\ HasHead(toks, "StringBadLength") -> RErr(Tail(toks), "protocol")
      [] OTHER -> RErr(toks, "protocol")

PrimitiveTags == {"BOOL", "BYTE", "DOUBLE", "I16", "I32", "I64", "STRING"}

\* thrift.Skip, called at client.go:742: consumes one value of the given wire tag
RECURSIVE Skip(_, _)
RECURSIVE SkipFields(_)
RECURSIVE SkipEach(_, _, _)

SkipFields(toks) ==
    LET fb == ReadFieldBegin(toks)
    IN  IF fb.err # "nil" THEN [rest |-> fb.rest, err |-> fb.err]
        ELSE IF fb.tag = "STOP" THEN [rest |-> fb.rest, err |-> "nil"]
        ELSE LET sk == Skip(fb.rest, fb.tag)
             IN  IF sk.err # "nil" THEN sk ELSE SkipFields(sk.rest)

\* n times: one value of each of the tags in turn
SkipEach(toks, tags, n) ==
    IF n = 0 THEN [rest |-> toks, err |-> "nil"]
    ELSE IF tags = <<>> THEN SkipEach(toks, tags, 0)
    ELSE LET first == Skip(toks, tags[1])
         IN  IF first.err # "nil" THEN first
             ELSE IF Len(tags) = 1 THEN SkipEach(first.rest, tags, n - 1)
             ELSE LET second == Skip(first.rest, tags[2])
                  IN  IF second.err # "nil" THEN second
                      ELSE SkipEach(second.rest, tags, n - 1)

Skip(toks, tag) ==
    CASE tag \in PrimitiveTags ->
           LET r == ReadPrimitive(tag, toks) IN [rest |-> r.rest, err |-> r.err]
      [] tag = "STRUCT" -> SkipFields(toks)
      [] tag = "MAP" ->
           IF HasHead(toks, "MapBegin")
           THEN SkipEach(Tail(toks), <<toks[1].ktag, toks[1].vtag>>, toks[1].size)
           ELSE [rest |-> toks, err |-> "protocol"]
      [] tag \in {"LIST", "SET"} ->
           IF HasHead(toks, "ListBegin")
           THEN SkipEach(Tail(toks), <<toks[1].etag>>, toks[1].size)
           ELSE [rest |-> toks, err |-> "protocol"]
      [] OTHER -> [rest |-> toks, err |-> "nil"]

NoField == [Name |-> ""]

\* client.go:733-739: the first declared field with the ID
FindField(fields, index) ==
    LET hits == {i \in DOMAIN fields : fields[i].ID = index}
    IN  IF hits = {} THEN NoField
        ELSE fields[CHOOSE i \in hits : \A j \in hits : i <= j]

\* client.go:777 and 748: result[key] = value
MapPut(result, key, value) == MapSet(result, key, value)

\* a ReadList that puts each element before the ones read so far
ListAppend_Front(result, value) == <<value>> \o result

\* client.go:797: result = append(result, value)
ListAppend(result, value) == Append(result, value)

\* a ReadStruct that leaves the payload of an unknown field where it is
SkipUnknown_Nothing(toks, tag) == toks

\* client.go:742: the payload of a field no declaration matches is skipped by the
\* header's tag, and what Skip returns is dropped
SkipUnknown(toks, tag) == Skip(toks, tag).rest

RECURSIVE ReadValue(_, _, _)
RECURSIVE ReadStruct(_, _, _)
RECURSIVE ReadStructFields(_, _, _, _)
RECURSIVE ReadMap(_, _, _)
RECURSIVE ReadMapEntries(_, _, _, _, _)
RECURSIVE ReadList(_, _, _)
RECURSIVE ReadListElems(_, _, _, _, _)

\* client.go:722-757: the field loop, the struct end and the result
ReadStructFields(svc, fields, toks, result) ==
    LET fb == ReadFieldBegin(toks)
    IN  IF fb.err # "nil" THEN RErr(fb.rest, fb.err)
        ELSE IF fb.tag = "STOP" THEN ROk(VMap(result), fb.rest)
        ELSE LET field == FindField(fields, fb.id)
             IN  IF field = NoField
                 THEN ReadStructFields(svc, fields, SkipUnknown(fb.rest, fb.tag), result)
                 ELSE LET rv == ReadValue(svc, field.Type, fb.rest)
                      IN  IF rv.err # "nil" THEN RErr(rv.rest, rv.err)
                          ELSE ReadStructFields(svc, fields, rv.rest,
                                                MapPut(result, field.Name, rv.val))

\* client.go:711-759
ReadStruct(svc, parserType, toks) ==
    IF parserType.Name \notin DOMAIN svc.Structs THEN RErr(toks, "structNotFound")
    ELSE ReadStructFields(svc, svc.Structs[parserType.Name].Fields, toks, EmptyMap)

\* client.go:768-778: the entries from the i-th on
ReadMapEntries(svc, valueType, toks, i, result) ==
    IF i = 0 THEN ROk(VMap(result), toks)
    ELSE LET key == ReadPrimitive("STRING", toks)
         IN  IF key.err # "nil" THEN RErr(key.rest, key.err)
             ELSE LET rv == ReadValue(svc, valueType, key.rest)
                  IN  IF rv.err # "nil" THEN RErr(rv.rest, rv.err)
                      ELSE ReadMapEntries(svc, valueType, rv.rest, i - 1,
                                          MapPut(result, key.val.s, rv.val))

\* client.go:761-783
ReadMap(svc, parserType, toks) ==
    IF ~HasHead(toks, "MapBegin") THEN RErr(toks, "protocol")
    ELSE IF toks[1].size > 0 /\ parserType.ValueType = NoType THEN RErr(Tail(toks), "panic")
    ELSE ReadMapEntries(svc, parserType.ValueType, Tail(toks),
                        IF toks[1].size > 0 THEN toks[1].size ELSE 0, EmptyMap)

\* client.go:792-798: the elements from the i-th on
ReadListElems(svc, valueType, toks, i, result) ==
    IF i = 0 THEN ROk(VList(result), toks)
    ELSE LET rv == ReadValue(svc, valueType, toks)
         IN  IF rv.err # "nil" THEN RErr(rv.rest, rv.err)
             ELSE ReadListElems(svc, valueType, rv.rest, i - 1, ListAppend(result, rv.val))

\* client.go:785-803
ReadList(svc, parserType, toks) ==
    IF ~HasHead(toks, "ListBegin") THEN RErr(toks, "protocol")
    ELSE IF toks[1].size > 0 /\ parserType.ValueType = NoType THEN RErr(Tail(toks), "panic")
    ELSE ReadListElems(svc, parserType.ValueType, Tail(toks),
                       IF toks[1].size > 0 THEN toks[1].size ELSE 0, <<>>)

\* client.go:681-709
ReadValue(svc, parserType, toks) ==
    IF parserType = NoType THEN RErr(toks, "panic")
    ELSE
    LET tag == LookupType(svc.Types, parserType.Name)
    IN  CASE tag \in PrimitiveTags -> ReadPrimitive(tag, toks)
          [] tag = "STRUCT" -> ReadStruct(svc, parserType, toks)
          [] tag = "MAP" -> ReadMap(svc, parserType, toks)
          [] tag = "LIST" -> ReadList(svc, parserType, toks)
          [] tag = "STOP" -> ROk(VNil, toks)
          [] OTHER -> RErr(toks, "unsupportedType")

(***************************************************************************)
(* Call framing: send, recv and ReadResponse.                              *)
(***************************************************************************)
NoError == [e |-> "nil"]
Error(e) == [e |-> e]

\* thrift.TApplicationException.Read, called at client.go:624: field 1 is the
\* message, field 2 the type, any other field is skipped, up to the stop marker
RECURSIVE ReadApplicationException(_, _)

\* the field whose header fb was read; r is the read of a string, of an i32, or the skip
ReadExceptionField(fb, r, exception) ==
    IF r.err # "nil" THEN [exception |-> exception, rest |-> r.rest, err |-> r.err]
    ELSE ReadApplicationException(
             r.rest,
             IF fb.id = 1 /\ fb.tag = "STRING" THEN [exception EXCEPT !.message = r.val.s]
             ELSE IF fb.id = 2 /\ fb.tag = "I32" THEN [exception EXCEPT !.type = r.val.i]
             ELSE exception)

ReadExceptionFields(fb, exception) ==
    IF fb.err # "nil" THEN [exception |-> exception, rest |-> fb.rest, err |-> fb.err]
    ELSE IF fb.tag = "STOP" THEN [exception |-> exception, rest |-> fb.rest, err |-> "nil"]
    ELSE ReadExceptionField(
             fb,
             IF fb.id = 1 /\ fb.tag = "STRING" THEN ReadPrimitive("STRING", fb.rest)
             ELSE IF fb.id = 2 /\ fb.tag = "I32" THEN ReadPrimitive("I32", fb.rest)
             ELSE Skip(fb.rest, fb.tag),
             exception)

ReadApplicationException(toks, exception) ==
    ReadExceptionFields(ReadFieldBegin(toks), exception)

\* client.go:623: thrift.UNKNOWN_APPLICATION_EXCEPTION is type 0
NewTApplicationException(type, message) ==
    [e |-> "TApplicationException", type |-> type, message |-> message]

\* client.go:659-665: the type the first field of the response struct is read with
ResponseFieldType(method, index) ==
    IF index = 0 THEN [type |-> method.ReturnType, err |-> "nil"]
    ELSE IF index <= Len(method.Exceptions)
    THEN IF index >= 1 THEN [type |-> method.Exceptions[index].Type, err |-> "nil"]
                       ELSE [type |-> NoType, err |-> "panic"]
    ELSE [type |-> NoType, err |-> "indexNotExists"]

\* client.go:672-678: the field header after the value is read and dropped; the
\* value read is returned with a nil error whichever field index it came under
ReadResponseEnd(rv, fb2, index) ==
    IF fb2.err # "nil"
    THEN [val |-> VNil, err |-> Error(fb2.err), rest |-> fb2.rest, index |-> index]
    ELSE [val |-> rv.val, err |-> NoError, rest |-> fb2.rest, index |-> index]

\* client.go:666-671
ReadResponseValue(rv, index) ==
    IF rv.err # "nil"
    THEN [val |-> VNil, err |-> Error(rv.err), rest |-> rv.rest, index |-> index]
    ELSE ReadResponseEnd(rv, ReadFieldBegin(rv.rest), index)

\* client.go:658-668
ReadResponseTyped(svc, ft, fb) ==
    IF ft.err # "nil"
    THEN [val |-> VNil, err |-> Error(ft.err), rest |-> fb.rest, index |-> fb.id]
    ELSE ReadResponseValue(ReadValue(svc, ft.type, fb.rest), fb.id)

\* client.go:651-665
ReadResponseField(svc, method, fb) ==
    IF fb.err # "nil"
    THEN [val |-> VNil, err |-> Error(fb.err), rest |-> fb.rest, index |-> 0]
    ELSE ReadResponseTyped(svc, ResponseFieldType(method, fb.id), fb)

\* client.go:644-679
ReadResponse(svc, methodName, toks) ==
    IF methodName \notin DOMAIN svc.Methods
    THEN [val |-> VNil, err |-> Error("methodNotExists"), rest |-> toks, index |-> 0]
    ELSE ReadResponseField(svc, svc.Methods[methodName], ReadFieldBegin(toks))

\* a recv without the exception branch
IsException_Never(messageTypeId) == FALSE

\* client.go:622
IsException(messageTypeId) == messageTypeId = "EXCEPTION"

\* a recv that compares no sequence ids
OutOfSequence_Never(clientSeqId, seqId) == FALSE

\* client.go:632
OutOfSequence(clientSeqId, seqId) == clientSeqId # seqId

NoEnvelope == [name |-> "", kind |-> "", seq |-> 0]

\* client.go:623-630: x is what exception.Read returned
RecvException(x, envelope) ==
    IF x.err # "nil"
    THEN [val |-> VNil, err |-> Error(x.err), rest |-> x.rest,
          at |-> "exception.Read", envelope |-> envelope, index |-> 0]
    ELSE [val |-> VNil, err |-> x.exception, rest |-> x.rest,
          at |-> "exception", envelope |-> envelope, index |-> 0]

\* client.go:635-641: r is what ReadResponse returned
RecvResponse(r, envelope) ==
    IF r.err # NoError
    THEN [val |-> VNil, err |-> r.err, rest |-> r.rest,
          at |-> "ReadResponse", envelope |-> envelope, index |-> r.index]
    ELSE [val |-> r.val, err |-> NoError, rest |-> r.rest,
          at |-> "return", envelope |-> envelope, index |-> r.index]

\* client.go:622-641: the message after its envelope
RecvBody(svc, clientSeqId, envelope, body) ==
    IF IsException(envelope.kind)
    THEN RecvException(
             ReadApplicationException(body, NewTApplicationException(0, "Unknown Exception")),
             envelope)
    ELSE IF OutOfSequence(clientSeqId, envelope.seq)
    THEN [val |-> VNil, err |-> NewTApplicationException(4, "Response out of sequence"),
          rest |-> body, at |-> "sequence", envelope |-> envelope, index |-> 0]
    ELSE RecvResponse(ReadResponse(svc, envelope.name, body), envelope)

\* client.go:618-642: recv once the input transport is open.  at names the
\* statement that returned; index is the field index ReadResponse read.
RecvOpen(svc, clientSeqId, toks) ==
    IF ~HasHead(toks, "MessageBegin")
    THEN [val |-> VNil, err |-> Error("protocol"), rest |-> toks, at |-> "ReadMessageBegin",
          envelope |-> NoEnvelope, index |-> 0]
    ELSE RecvBody(svc, clientSeqId,
                  [name |-> toks[1].name, kind |-> toks[1].kind, seq |-> toks[1].seq],
                  Tail(toks))

\* a send that leaves the message open
SendOpen_NoEnd(svc, seqId, method, args) ==
    After(WOk(<<[op |-> "MessageBegin", name |-> method, kind |-> "CALL", seq |-> seqId]>>),
          WriteRequest(svc, method, args))

\* client.go:598-608: send once the output transport is open: the results [out, err]
\* of the codec calls up to the flush
SendOpen(svc, seqId, method, args) ==
    After(WOk(<<[op |-> "MessageBegin", name |-> method, kind |-> "CALL", seq |-> seqId]>>),
          After(WriteRequest(svc, method, args), WOk(<<[op |-> "MessageEnd"]>>)))

(***************************************************************************)
(* The client state machine.                                               *)
(***************************************************************************)
MaxCalls == 2

Clients == {"c1"}

MainService == [thrift |-> "main", name |-> "Svc"]

\* the registry of the main schema, built in a fresh process
MainTypes ==
    NewServiceResult(BuiltinTypeNameMap, "main", "Svc",
                     CHOOSE o \in Orders(DOMAIN Thrifts["main"].Typedefs) : TRUE).types

\* client.go:555-569: the socket is created, not opened; SeqId is 0.  outBuf is what
\* the buffered output transport holds unflushed; calls and sent record the calls
\* made and the sequence ids they wrote.
NewClient(service) ==
    [SeqId |-> 0, open |-> FALSE, outBuf |-> <<>>, service |-> service,
     calls |-> 0, sent |-> <<>>]

\* client.go:571: Call has a value receiver, so send and recv run on a copy of the
\* Client: the SeqId the caller's Client holds after the call is the one it held
\* before, whatever send made of the copy's
SeqIdAfterCall(before, copy) == before

\* client.go:598: client.SeqId++ on an int32
NextSeqId(seqId) == ToInt32(seqId + 1)

NoCall ==
    [client |-> "", method |-> "", args |-> <<>>, seqId |-> 0, out |-> <<>>,
     flushed |-> <<>>, didFlush |-> FALSE, wire |-> <<>>, val |-> VNil, err |-> NoError,
     at |-> "", envelope |-> NoEnvelope, index |-> 0, consumed |-> 0,
     wasOpen |-> FALSE, openOk |-> FALSE, openAtSend |-> FALSE, openAtRecv |-> FALSE]

\* the user values the calls pass
UserBob == VMap([n \in {"id", "name"} |-> IF n = "id" THEN VInt("int", 42) ELSE VStr("bob")])
UserNoId == VMap([n \in {"name"} |-> VStr("bob")])

\* a list<map<string,i16>> argument
SwapList == VList(<<VMap([n \in {"a"} |-> VInt("int", 1)])>>)

\* the calls the caller makes: method and positional arguments
CallInputs ==
    {[method |-> "get", args |-> <<VInt("int", 42)>>],
     [method |-> "get", args |-> <<VStr("abc")>>],
     [method |-> "get", args |-> <<>>],
     [method |-> "put", args |-> <<UserBob, VInt("int", 7), VBool(TRUE)>>],
     [method |-> "put", args |-> <<UserNoId, VInt("int", 7)>>],
     [method |-> "ping", args |-> <<>>],
     [method |-> "hush", args |-> <<>>],
     [method |-> "swap", args |-> <<VStr("bob"), SwapList>>],
     [method |-> "swap", args |-> <<VStr("bob"), SwapList, VBool(TRUE)>>],
     [method |-> "swap", args |-> <<VStr("bob")>>],
     [method |-> "nope", args |-> <<>>]}

\* one field of a response struct as the peer sends it: index, type and value
ResponseField(index, type, value) == [index |-> index, type |-> type, value |-> value]

\* what a peer puts on the wire for a response struct with the fields
RECURSIVE FieldsWire(_)
FieldsWire(fields) ==
    IF fields = <<>> THEN <<[op |-> "FieldStop"]>>
    ELSE Wire((CHOOSE w \in WriteField(ServiceOf(MainTypes, MainService),
                                       Field(fields[1].index, "", fields[1].type, FALSE),
                                       fields[1].value) : TRUE).out)
         \o FieldsWire(Tail(fields))

NotFoundValue == VMap([n \in {"msg"} |-> VStr("no user")])
DeniedValue == VMap([n \in {"code"} |-> VInt("int", 7)])

\* the response structs the peer may send, for each method name it may put in the
\* envelope
ReplyStructs ==
    {[name |-> "get", fields |-> <<ResponseField(0, Ty("User"), UserBob)>>],
     [name |-> "get", fields |-> <<ResponseField(1, Ty("NotFound"), NotFoundValue)>>],
     [name |-> "get", fields |-> <<ResponseField(2, Ty("Denied"), DeniedValue)>>],
     [name |-> "get", fields |-> <<ResponseField(3, Ty("Denied"), DeniedValue)>>],
     [name |-> "get", fields |-> <<ResponseField(-1, Ty("Denied"), DeniedValue)>>],
     [name |-> "get", fields |-> <<ResponseField(0, Ty("User"), UserBob),
                                   ResponseField(9, Ty("i32"), VInt("int", 5))>>],
     [name |-> "get", fields |-> <<>>],
     [name |-> "put", fields |-> <<ResponseField(0, Ty("i32"), VInt("int", 7))>>],
     [name |-> "put", fields |-> <<ResponseField(1, Ty("Denied"), DeniedValue)>>],
     [name |-> "put", fields |-> <<ResponseField(2, Ty("Denied"), DeniedValue)>>],
     [name |-> "put", fields |-> <<ResponseField(0, Ty("User"), UserBob)>>],
     [name |-> "ping", fields |-> <<>>],
     [name |-> "ping", fields |-> <<ResponseField(0, Ty("i32"), VInt("int", 7))>>],
     [name |-> "hush", fields |-> <<>>],
     [name |-> "swap", fields |-> <<ResponseField(0, Ty("i32"), VInt("int", 7))>>],
     [name |-> "nope", fields |-> <<>>]}

\* a response struct of get whose User carries, after id and name, a field 9 the
\* schema does not declare: a string with a negative length prefix
MalformedUserBody ==
    <<[op |-> "FieldBegin", name |-> "", tag |-> "STRUCT", id |-> 0],
      [op |-> "FieldBegin", name |-> "id", tag |-> "I64", id |-> 1],
      [op |-> "I64", i |-> 42],
      [op |-> "FieldBegin", name |-> "name", tag |-> "STRING", id |-> 2],
      [op |-> "String", s |-> "bob"],
      [op |-> "FieldBegin", name |-> "junk", tag |-> "STRING", id |-> 9],
      [op |-> "StringBadLength"],
      [op |-> "FieldStop"],
      [op |-> "FieldStop"]>>

\* the method names and payloads of the REPLY messages the peer may send: each
\* response struct whole, one cut off before its first byte and the malformed one
ReplyCases ==
    {[name |-> r.name, body |-> FieldsWire(r.fields)] : r \in ReplyStructs}
    \cup {[name |-> "get", body |-> <<>>]}
    \cup {[name |-> "get", body |-> MalformedUserBody]}

\* the payloads of an EXCEPTION message: a TApplicationException struct, whole or cut
ExceptionBodies ==
    {<<[op |-> "FieldBegin", name |-> "", tag |-> "STRING", id |-> 1],
       [op |-> "String", s |-> "no user"],
       [op |-> "FieldBegin", name |-> "", tag |-> "I32", id |-> 2],
       [op |-> "I32", i |-> 6],
       [op |-> "FieldStop"]>>,
     <<[op |-> "FieldBegin", name |-> "", tag |-> "STRING", id |-> 1]>>}

\* what recv may find on the wire after a call that wrote sequence id seqId: nothing,
\* each REPLY under that sequence id, the ones naming get under the next one, and
\* the EXCEPTION messages under both
Responses(seqId) ==
    {<<>>}
    \cup {<<[op |-> "MessageBegin", name |-> r.name, kind |-> "REPLY", seq |-> seqId]>>
             \o r.body : r \in ReplyCases}
    \cup {<<[op |-> "MessageBegin", name |-> r.name, kind |-> "REPLY", seq |-> seqId + 1]>>
             \o r.body : r \in {x \in ReplyCases : x.name = "get"}}
    \cup {<<[op |-> "MessageBegin", name |-> name, kind |-> "EXCEPTION", seq |-> seq]>>
             \o body : name \in {"get", "nope"}, seq \in {seqId, seqId + 1},
                        body \in ExceptionBodies}

\* a send and a recv that never open the transport
OpenIfClosed_Skip(open, openOk) == [open |-> open, err |-> "nil"]

\* client.go:592-596 and 612-616: a transport that is not open is opened; openOk says
\* whether the socket can connect.  Returns what the transport is afterwards.
OpenIfClosed(open, openOk) ==
    IF open THEN [open |-> TRUE, err |-> "nil"]
    ELSE IF openOk THEN [open |-> TRUE, err |-> "nil"]
    ELSE [open |-> FALSE, err |-> "openFailed"]

\* client.go:571-576 with send (591-609) and recv (611-642): one whole call.  The
\* output and input codecs share one socket, so recv finds open what send opened.
Call(c, method, args, openOk) ==
    /\ ~crashed
    /\ clients[c].calls < MaxCalls
    /\ LET cl == clients[c]
           svc == ServiceOf(defultTypeNameMap, cl.service)
           seqId == NextSeqId(cl.SeqId)
           so == OpenIfClosed(cl.open, openOk)
           ro == OpenIfClosed(so.open, openOk)
           base == [NoCall EXCEPT !.client = c, !.method = method, !.args = args,
                                  !.wasOpen = cl.open, !.openOk = openOk]
       IN  IF so.err # "nil"
           THEN /\ clients' = [clients EXCEPT ![c].open = so.open, ![c].calls = @ + 1]
                /\ lastCall' = [base EXCEPT !.err = Error(so.err), !.at = "send.Open"]
                /\ crashed' = FALSE
           ELSE \E w \in SendOpen(svc, seqId, method, args) :
                  IF w.err # "nil"
                  THEN /\ clients' = [clients EXCEPT
                                        ![c].open = so.open,
                                        ![c].SeqId = SeqIdAfterCall(cl.SeqId, seqId),
                                        ![c].outBuf = @ \o Wire(w.out),
                                        ![c].calls = @ + 1,
                                        ![c].sent = Append(@, seqId)]
                       /\ lastCall' = [base EXCEPT !.seqId = seqId, !.out = w.out,
                                                   !.openAtSend = so.open,
                                                   !.err = Error(w.err), !.at = "send"]
                       /\ crashed' = (w.err = "panic")
                  ELSE IF ro.err # "nil"
                  THEN /\ clients' = [clients EXCEPT
                                        ![c].open = ro.open,
                                        ![c].SeqId = SeqIdAfterCall(cl.SeqId, seqId),
                                        ![c].outBuf = <<>>,
                                        ![c].calls = @ + 1,
                                        ![c].sent = Append(@, seqId)]
                       /\ lastCall' = [base EXCEPT !.seqId = seqId, !.out = w.out,
                                                   !.flushed = cl.outBuf \o Wire(w.out),
                                                   !.didFlush = TRUE,
                                                   !.openAtSend = so.open,
                                                   !.err = Error(ro.err), !.at = "recv.Open"]
                       /\ crashed' = FALSE
                  ELSE \E toks \in Responses(seqId) :
                       LET r == RecvOpen(svc, seqId, toks)
                       IN  /\ clients' = [clients EXCEPT
                                            ![c].open = ro.open,
                                            ![c].SeqId = SeqIdAfterCall(cl.SeqId, seqId),
                                            ![c].outBuf = <<>>,
                                            ![c].calls = @ + 1,
                                            ![c].sent = Append(@, seqId)]
                           /\ lastCall' = [base EXCEPT
                                             !.seqId = seqId, !.out = w.out,
                                             !.flushed = cl.outBuf \o Wire(w.out),
                                             !.didFlush = TRUE, !.wire = toks,
                                             !.openAtSend = so.open,
                                             !.openAtRecv = ro.open,
                                             !.val = r.val, !.err = r.err, !.at = r.at,
                                             !.envelope = r.envelope, !.index = r.index,
                                             !.consumed = Len(toks) - Len(r.rest)]
                           /\ crashed' = (r.err = Error("panic"))
    /\ UNCHANGED <<serviceVars, codecVars, raceVars>>

\* client.go:578-589: the one socket under both codecs is closed if it is open
Close(c) ==
    /\ ~crashed
    /\ clients[c].open
    /\ clients' = [clients EXCEPT ![c].open = FALSE]
    /\ UNCHANGED <<lastCall, crashed, serviceVars, codecVars, raceVars>>

(***************************************************************************)
(* Concurrent calls.  Goroutines run Call at the same time, each on one of *)
(* two Clients whose transports are open.  Call has a value receiver, so   *)
(* each goroutine works on its own copy of the Client struct: the copy     *)
(* holds its own SeqId and the same codecs.  A codec write appends to the  *)
(* Client's buffered output, Flush hands the buffer to the Client's        *)
(* socket, and the peer answers each whole request it finds on a socket.   *)
(***************************************************************************)
Goroutines == {"g1", "g2", "g3"}

RaceClients == {"c1", "c2"}

\* a NewClient that gives every Client the socket of c1
SocketOf_Shared(c) == "c1"

\* client.go:556: NewClient creates a socket of its own for each Client
SocketOf(c) == c

\* what each goroutine calls
RaceInputs ==
    [g \in Goroutines |->
        IF g = "g2" THEN [method |-> "ping", args |-> <<>>]
                    ELSE [method |-> "get", args |-> <<VInt("int", 42)>>]]

NoGoroutine ==
    [client |-> "", method |-> "", args |-> <<>>, pc |-> "idle", SeqId |-> 0,
     todo |-> <<>>, envelope |-> NoEnvelope, val |-> VNil, err |-> NoError]

NoSocket == [sent |-> <<>>, served |-> 0, inWire |-> <<>>]

InitRaceVars ==
    /\ goroutines = [g \in Goroutines |-> NoGoroutine]
    /\ sockets = [c \in Clients |-> NoSocket]

\* client.go:571 and 598-608: the goroutine's Call copies the Client, send increments
\* the copy's SeqId and starts on the codec writes of the request
GoCall(g) ==
    /\ goroutines[g].pc = "call"
    /\ LET gr == goroutines[g]
           cl == clients[gr.client]
           seqId == NextSeqId(cl.SeqId)
       IN  \E w \in SendOpen(ServiceOf(defultTypeNameMap, cl.service), seqId,
                             gr.method, gr.args) :
              goroutines' = [goroutines EXCEPT
                               ![g].SeqId = seqId,
                               ![g].todo = w.out,
                               ![g].pc = IF w.err = "nil" THEN "write" ELSE "done",
                               ![g].err = Error(w.err)]
    /\ UNCHANGED <<sockets, serviceVars, callVars, codecVars>>

\* one codec write of the request: what it puts on the wire goes to the end of the
\* Client's output buffer
GoWrite(g) ==
    /\ goroutines[g].pc = "write"
    /\ LET gr == goroutines[g]
       IN  /\ clients' = [clients EXCEPT
                            ![gr.client].outBuf = @ \o Wire(<<Head(gr.todo)>>)]
           /\ goroutines' = [goroutines EXCEPT
                               ![g].todo = Tail(gr.todo),
                               ![g].pc = IF Len(gr.todo) = 1 THEN "flush" ELSE "write"]
    /\ UNCHANGED <<sockets, lastCall, crashed, serviceVars, codecVars>>

\* client.go:608: Flush hands whatever the Client's output buffer holds to the socket
GoFlush(g) ==
    /\ goroutines[g].pc = "flush"
    /\ LET c == goroutines[g].client
       IN  /\ sockets' = [sockets EXCEPT ![SocketOf(c)].sent = @ \o clients[c].outBuf]
           /\ clients' = [clients EXCEPT ![c].outBuf = <<>>]
    /\ goroutines' = [goroutines EXCEPT ![g].pc = "recv"]
    /\ UNCHANGED <<lastCall, crashed, serviceVars, codecVars>>

\* the response struct the peer sends for a method
ReplyFor(name) ==
    IF name = "get" THEN FieldsWire(<<ResponseField(0, Ty("User"), UserBob)>>)
    ELSE <<[op |-> "FieldStop"]>>

\* the peer: it answers the next request on a socket once the request is whole
\* and well formed, under the request's name and sequence id
Serve(k) ==
    /\ sockets[k].served < Len(sockets[k].sent)
    /\ LET pending == SubSeq(sockets[k].sent, sockets[k].served + 1, Len(sockets[k].sent))
           body == SkipFields(Tail(pending))
       IN  /\ pending[1].op = "MessageBegin"
           /\ body.err = "nil"
           /\ sockets' = [sockets EXCEPT
                            ![k].served = Len(sockets[k].sent) - Len(body.rest),
                            ![k].inWire = @ \o <<[op |-> "MessageBegin",
                                                  name |-> pending[1].name,
                                                  kind |-> "REPLY",
                                                  seq |-> pending[1].seq]>>
                                            \o ReplyFor(pending[1].name)]
    /\ UNCHANGED <<goroutines, serviceVars, callVars, codecVars>>

\* client.go:618-621: ReadMessageBegin takes what stands first on the Client's input
GoRecvBegin(g) ==
    /\ goroutines[g].pc = "recv"
    /\ LET k == SocketOf(goroutines[g].client)
           toks == sockets[k].inWire
       IN  /\ toks # <<>>
           /\ IF toks[1].op = "MessageBegin"
              THEN /\ goroutines' = [goroutines EXCEPT
                                       ![g].envelope = [name |-> toks[1].name,
                                                        kind |-> toks[1].kind,
                                                        seq |-> toks[1].seq],
                                       ![g].pc = "body"]
                   /\ sockets' = [sockets EXCEPT ![k].inWire = Tail(toks)]
              ELSE /\ goroutines' = [goroutines EXCEPT ![g].err = Error("protocol"),
                                                       ![g].pc = "done"]
                   /\ UNCHANGED sockets
    /\ UNCHANGED <<serviceVars, callVars, codecVars>>

\* client.go:622-641: the rest of recv, on what the Client's input holds by then
GoRecvBody(g) ==
    /\ goroutines[g].pc = "body"
    /\ LET gr == goroutines[g]
           k == SocketOf(gr.client)
           r == RecvBody(ServiceOf(defultTypeNameMap, clients[gr.client].service),
                         gr.SeqId, gr.envelope, sockets[k].inWire)
       IN  /\ goroutines' = [goroutines EXCEPT ![g].val = r.val, ![g].err = r.err,
                                               ![g].pc = "done"]
           /\ sockets' = [sockets EXCEPT ![k].inWire = r.rest]
    /\ UNCHANGED <<serviceVars, callVars, codecVars>>

(***************************************************************************)
(* Codec runs: a value is written with a type and the wire is read back    *)
(* with the same type by a client of the main schema.  The writer is that  *)
(* client, or a peer whose User struct declares more fields.               *)
(***************************************************************************)
MaxLen == 2

PeerService == [thrift |-> "peer", name |-> "Svc"]

PeerTypes ==
    NewServiceResult(BuiltinTypeNameMap, "peer", "Svc",
                     CHOOSE o \in Orders(DOMAIN Thrifts["peer"].Typedefs) : TRUE).types

WriterSvc(writer) ==
    IF writer = "peer" THEN ServiceOf(PeerTypes, PeerService)
    ELSE ServiceOf(MainTypes, MainService)

ReaderSvc == ServiceOf(MainTypes, MainService)

\* the sequences of at most n elements of S
SeqsUpTo(S, n) == UNION {[1..k -> S] : k \in 0..n}

\* the mappings with keys among K in which key k has a value of V[k]
RECURSIVE MapsOver(_, _)
MapsOver(K, V) ==
    IF K = {} THEN {EmptyMap}
    ELSE LET k == CHOOSE x \in K : TRUE
             rest == MapsOver(K \ {k}, V)
         IN  rest \cup {MapSet(m, k, v) : m \in rest, v \in V[k]}

ScalarValues ==
    {VNil, VBool(TRUE), VBool(FALSE), VInt("int", 42), VInt("int", -7), VInt("int", 40000),
     VInt("int64", 70000), VInt("int", -32769), VInt("uint8", 7), VInt("uint", 300),
     VFloat(6), VFloat(-14),
     VStr("42"), VStr("-7"), VStr("+5"), VStr("abc"), VStr("4a"), VStr("-"), VStr(""),
     VStr("1.5"), VStr("40000"), VStr("-32769")}

ScalarTypes ==
    {Ty("bool"), Ty("byte"), Ty("double"), Ty("i16"), Ty("i32"), Ty("i64"), Ty("string"),
     Ty("MyId"), Ty("Color"), Ty("void"), Ty("Missing"), Ty("utf8")}

UserValues ==
    {VMap(m) : m \in MapsOver({"id", "name", "color", "junk"},
                 [k \in {"id", "name", "color", "junk"} |->
                     CASE k = "id" -> {VInt("int", 42), VStr("42"), VStr("abc")}
                       [] k = "name" -> {VStr("bob"), VInt("int", 42)}
                       [] k = "color" -> {VInt("int", 1)}
                       [] k = "junk" -> {VBool(TRUE)}])}

PointValues ==
    {VMap(m) : m \in MapsOver({"x", "y"},
                 [k \in {"x", "y"} |-> {VInt("int", 1), VInt("int", 40000)}])}

PeerUserValues ==
    {VMap(m) : m \in MapsOver({"id", "extra", "name", "pt", "tags", "scores", "color"},
                 [k \in {"id", "extra", "name", "pt", "tags", "scores", "color"} |->
                     CASE k = "id" -> {VInt("int", 42)}
                       [] k = "extra" -> {VInt("int", 5)}
                       [] k = "name" -> {VStr("bob")}
                       [] k = "pt" -> {VMap([n \in {"x", "y"} |-> VInt("int", 1)]),
                                       VMap([n \in {"x"} |-> VInt("int", 1)])}
                       [] k = "tags" -> {VList(<<>>), VList(<<VStr("42"), VStr("abc")>>)}
                       [] k = "scores" -> {VMap([n \in {"a", "b"} |->
                                                  IF n = "a" THEN VInt("int", 1)
                                                             ELSE VInt("int", 2)])}
                       [] k = "color" -> {VInt("int", 1)}])}

I32Elems == {VInt("int", 42), VInt("int", -7), VStr("-7"), VStr("abc")}

I16Maps ==
    {VMap(m) : m \in MapsOver({"a", "b"},
                 [k \in {"a", "b"} |-> {VInt("int", 42), VInt("int", 40000), VStr("abc")}])}

\* integers outside int32: 2^32 + 1, 2^31, -2^31 - 1 and the uint32 2^32 - 1
WideValues ==
    {VWide("int64", 1, 1), VWide("int64", 1, -2147483647 - 1),
     VWide("int64", -1, 2147483647), VWide("uint32", 1, -1)}

\* strings of the first three of them
WideStrings == {VStr("4294967297"), VStr("2147483648"), VStr("-2147483649")}

CodecCases ==
    {[writer |-> "main", type |-> t, value |-> v] : t \in ScalarTypes, v \in ScalarValues}
    \cup {[writer |-> "main", type |-> t, value |-> v] :
            t \in {Ty("i16"), Ty("i32"), Ty("i64")}, v \in WideValues}
    \cup {[writer |-> "main", type |-> t, value |-> v] :
            t \in {Ty("i16"), Ty("i32")}, v \in WideStrings}
    \cup {[writer |-> "main", type |-> Ty("User"), value |-> v] :
            v \in UserValues \cup {VNil, VList(<<>>)}}
    \cup {[writer |-> "main", type |-> Ty("Owner"), value |-> v] : v \in UserValues}
    \cup {[writer |-> "main", type |-> Ty("Point"), value |-> v] : v \in PointValues}
    \cup {[writer |-> "main", type |-> Ty("Ghost"), value |-> v] : v \in PointValues}
    \cup {[writer |-> "main", type |-> ListOf(Ty("i32")), value |-> VList(l)] :
            l \in SeqsUpTo(I32Elems, MaxLen)}
    \cup {[writer |-> "main", type |-> SetOf(Ty("i32")), value |-> VList(l)] :
            l \in SeqsUpTo(I32Elems, MaxLen)}
    \cup {[writer |-> "main", type |-> ListOf(Ty("Point")), value |-> VList(l)] :
            l \in SeqsUpTo(PointValues, 1)}
    \cup {[writer |-> "main", type |-> MapOf(Ty("i16")), value |-> v] :
            v \in I16Maps \cup {VList(<<>>)}}
    \cup {[writer |-> "main", type |-> MapOf(ListOf(Ty("i32"))),
           value |-> VMap([k \in {"a", "b"} |-> IF k = "a" THEN VList(la) ELSE VList(lb)])] :
            la \in SeqsUpTo(I32Elems, 1), lb \in SeqsUpTo({VInt("int", 42)}, MaxLen)}
    \cup {[writer |-> "main", type |-> ListOf(MapOf(Ty("i16"))), value |-> VList(l)] :
            l \in SeqsUpTo({m \in I16Maps : DOMAIN m.m # {}}, 1)}
    \cup {[writer |-> "peer", type |-> Ty("User"), value |-> v] : v \in PeerUserValues}

NoWrite == [out |-> <<>>, err |-> "none"]
NoRead == [val |-> VNil, rest |-> <<>>, err |-> "none"]

InitCodecVars ==
    /\ codecCase = [writer |-> "main", type |-> Ty("bool"), value |-> VNil]
    /\ codecPhase = "idle"
    /\ written = NoWrite
    /\ readback = NoRead

\* WriteValue applied to the case
CodecWrite ==
    /\ codecPhase = "input"
    /\ \E w \in WriteValue(WriterSvc(codecCase.writer), codecCase.type, codecCase.value) :
          written' = w
    /\ codecPhase' = "written"
    /\ UNCHANGED <<codecCase, readback, serviceVars, callVars, raceVars>>

\* ReadValue applied to the wire a successful write left
CodecRead ==
    /\ codecPhase = "written"
    /\ written.err = "nil"
    /\ readback' = ReadValue(ReaderSvc, codecCase.type, Wire(written.out))
    /\ codecPhase' = "read"
    /\ UNCHANGED <<codecCase, written, serviceVars, callVars, raceVars>>

(***************************************************************************)
(* The specifications.                                                     *)
(***************************************************************************)
InitCallVars ==
    /\ clients = [c \in Clients |-> NewClient(MainService)]
    /\ lastCall = NoCall
    /\ crashed = FALSE

\* the process after NewService for the main schema and NewClient
Init ==
    /\ defultTypeNameMap = MainTypes
    /\ services = {MainService}
    /\ lastNew = [thrift |-> "main", name |-> "Svc",
                  order |-> CHOOSE o \in Orders(DOMAIN Thrifts["main"].Typedefs) : TRUE,
                  before |-> BuiltinTypeNameMap, service |-> MainService, err |-> "nil"]
    /\ InitCallVars
    /\ InitCodecVars
    /\ InitRaceVars

Next ==
    \/ \E c \in Clients, in \in CallInputs :
          \E openOk \in IF clients[c].open THEN {TRUE} ELSE BOOLEAN :
              Call(c, in.method, in.args, openOk)
    \/ \E c \in Clients : Close(c)

Spec == Init /\ [][Next]_vars

\* registry construction in a fresh process
InitRegistry ==
    /\ InitService
    /\ clients = [c \in Clients |-> NewClient(NoService)]
    /\ lastCall = NoCall
    /\ crashed = FALSE
    /\ InitCodecVars
    /\ InitRaceVars

NextRegistry ==
    \E id \in ThriftIds, name \in ServiceNames :
        \E order \in Orders(DOMAIN Thrifts[id].Typedefs) :
            /\ NewService(id, name, order)
            /\ UNCHANGED <<callVars, codecVars, raceVars>>

SpecRegistry == InitRegistry /\ [][NextRegistry]_vars

\* the codec functions on the cases
InitCodec ==
    /\ defultTypeNameMap = MainTypes
    /\ services = {MainService}
    /\ lastNew = [thrift |-> "main", name |-> "Svc",
                  order |-> CHOOSE o \in Orders(DOMAIN Thrifts["main"].Typedefs) : TRUE,
                  before |-> BuiltinTypeNameMap, service |-> MainService, err |-> "nil"]
    /\ InitCallVars
    /\ codecCase \in CodecCases
    /\ codecPhase = "input"
    /\ written = NoWrite
    /\ readback = NoRead
    /\ InitRaceVars

NextCodec == CodecWrite \/ CodecRead

SpecCodec == InitCodec /\ [][NextCodec]_vars

\* the goroutines about to run Call, each on either of two open Clients of the main
\* service
InitRace ==
    /\ defultTypeNameMap = MainTypes
    /\ services = {MainService}
    /\ lastNew = [thrift |-> "main", name |-> "Svc",
                  order |-> CHOOSE o \in Orders(DOMAIN Thrifts["main"].Typedefs) : TRUE,
                  before |-> BuiltinTypeNameMap, service |-> MainService, err |-> "nil"]
    /\ clients = [c \in RaceClients |-> [NewClient(MainService) EXCEPT !.open = TRUE]]
    /\ lastCall = NoCall
    /\ crashed = FALSE
    /\ InitCodecVars
    /\ \E on \in [Goroutines -> RaceClients] :
          goroutines = [g \in Goroutines |->
                          [NoGoroutine EXCEPT !.client = on[g],
                                              !.method = RaceInputs[g].method,
                                              !.args = RaceInputs[g].args,
                                              !.pc = "call"]]
    /\ sockets = [c \in RaceClients |-> NoSocket]

NextRace ==
    \/ \E g \in Goroutines : GoCall(g)
    \/ \E g \in Goroutines : GoWrite(g)
    \/ \E g \in Goroutines : GoFlush(g)
    \/ \E k \in RaceClients : Serve(k)
    \/ \E g \in Goroutines : GoRecvBegin(g)
    \/ \E g \in Goroutines : GoRecvBody(g)

SpecRace == InitRace /\ [][NextRace]_vars
(***************************************************************************)
(* Properties of the call framing (checked under Spec).                    *)
(***************************************************************************)
\* C1: on one session used sequentially the k-th call that reaches send writes
\* sequence id k in its message-begin, and the session's stored counter equals the
\* number of such calls made.
SequenceCounterCounts ==
    \A c \in Clients :
        /\ clients[c].SeqId = Len(clients[c].sent)
        /\ \A k \in DOMAIN clients[c].sent : clients[c].sent[k] = k

\* C2: a call whose response envelope has a kind other than EXCEPTION and a sequence
\* id other than the one the call sent returns the out-of-sequence error and no
\* value, and reads nothing of the response after the envelope.
SequenceMismatchRejected ==
    (/\ lastCall.didFlush
     /\ lastCall.envelope.kind \notin {"", "EXCEPTION"}
     /\ lastCall.envelope.seq # lastCall.seqId)
    => /\ lastCall.err = NewTApplicationException(4, "Response out of sequence")
       /\ lastCall.val = VNil
       /\ lastCall.at = "sequence"
       /\ lastCall.consumed = 1

SequenceMismatchSeen ==
    /\ lastCall.didFlush
    /\ lastCall.envelope.kind = "REPLY"
    /\ lastCall.envelope.seq # lastCall.seqId
    /\ lastCall.envelope.name = lastCall.method
    /\ Len(lastCall.wire) > 3
    /\ lastCall.err.e = "TApplicationException"

\* C3: a response of kind EXCEPTION, whatever the method called, the method named
\* and the sequence id, returns no value; recv returns from the exception branch,
\* before the sequence check and the response struct; when the payload is a whole
\* application exception the error returned is that exception, decoded.
ExceptionReplyIsError ==
    (lastCall.didFlush /\ lastCall.envelope.kind = "EXCEPTION")
    => /\ lastCall.val = VNil
       /\ lastCall.at \in {"exception", "exception.Read"}
       /\ lastCall.err # NoError
       /\ Tail(lastCall.wire) \in ExceptionBodies
       /\ (Len(lastCall.wire) = 6
              => /\ lastCall.err = NewTApplicationException(6, "no user")
                 /\ lastCall.at = "exception"
                 /\ lastCall.consumed = 6)

ExceptionReplySeen ==
    /\ lastCall.didFlush
    /\ lastCall.envelope.kind = "EXCEPTION"
    /\ lastCall.envelope.seq # lastCall.seqId
    /\ lastCall.envelope.name # lastCall.method
    /\ lastCall.err = NewTApplicationException(6, "no user")

\* C4: a response struct whose field index lies in 1..N, N the number of exceptions
\* the method declares, is returned as the call's error with no value; only field
\* index 0 yields a value with a nil error.
DeclaredExceptionIsError ==
    (/\ lastCall.at \in {"return", "ReadResponse"}
     /\ lastCall.envelope.name = lastCall.method
     /\ lastCall.envelope.name \in DOMAIN SvcMethods
     /\ lastCall.index \in 1..Len(SvcMethods[lastCall.envelope.name].Exceptions))
    => /\ lastCall.err # NoError
       /\ lastCall.val = VNil

(***************************************************************************)
(* Properties of the value codec (checked under SpecCodec).                *)
(***************************************************************************)
IntegerKinds == SignedKinds \cup UnsignedKinds

\* the integer of the signed 16-bit range congruent to v modulo 2^16
Narrow16(v) == CHOOSE w \in -32768..32767 : w % 65536 = v % 65536

\* v is a generic value of the type T of the reading service: a boolean for BOOL, a
\* byte for BYTE, an integer for I16, I32 and I64, a double or an integer for DOUBLE,
\* a string for STRING, a mapping that has every required field for a struct, and
\* members of the element type in a map or a list
RECURSIVE SchemaValid(_, _)
SchemaValid(T, v) ==
    LET tag == LookupType(ReaderSvc.Types, T.Name)
    IN  CASE tag = "BOOL" -> v.k = "bool"
          [] tag = "BYTE" -> v.k = "uint8"
          [] tag \in {"I16", "I32", "I64"} -> v.k \in IntegerKinds
          [] tag = "DOUBLE" -> v.k \in IntegerKinds \cup FloatKinds
          [] tag = "STRING" -> v.k = "string"
          [] tag = "STRUCT" ->
               /\ T.Name \in DOMAIN ReaderSvc.Structs
               /\ v.k = "map"
               /\ \A i \in DOMAIN ReaderSvc.Structs[T.Name].Fields :
                     LET f == ReaderSvc.Structs[T.Name].Fields[i]
                     IN  IF f.Name \in DOMAIN v.m THEN SchemaValid(f.Type, v.m[f.Name])
                         ELSE f.Optional
          [] tag = "MAP" ->
               v.k = "map" /\ \A key \in DOMAIN v.m : SchemaValid(T.ValueType, v.m[key])
          [] tag = "LIST" ->
               v.k = "list" /\ \A i \in DOMAIN v.l : SchemaValid(T.ValueType, v.l[i])
          [] OTHER -> FALSE

\* the schema-valid value v with the keys its struct types do not declare dropped
\* and every number at the wire width of its type
RECURSIVE Normalize(_, _)
Normalize(T, v) ==
    LET tag == LookupType(ReaderSvc.Types, T.Name)
    IN  CASE tag = "I16" -> VInt("int16", Narrow16(v.i))
          [] tag = "I32" -> VInt("int32", v.i)
          [] tag = "I64" -> IF HighWord(v) = 0 THEN VInt("int64", v.i)
                            ELSE VWide("int64", v.hi, v.i)
          [] tag = "DOUBLE" -> IF v.k \in FloatKinds THEN VFloat(v.q) ELSE VFloat(4 * v.i)
          [] tag = "STRUCT" ->
               LET fields == ReaderSvc.Structs[T.Name].Fields
                   typeOf(name) ==
                       fields[CHOOSE i \in DOMAIN fields : fields[i].Name = name].Type
               IN  VMap([name \in {fields[i].Name : i \in DOMAIN fields} \cap DOMAIN v.m |->
                            Normalize(typeOf(name), v.m[name])])
          [] tag = "MAP" -> VMap([key \in DOMAIN v.m |-> Normalize(T.ValueType, v.m[key])])
          [] tag = "LIST" -> VList([i \in DOMAIN v.l |-> Normalize(T.ValueType, v.l[i])])
          [] OTHER -> v

\* C5: writing a schema-valid value v with a type T succeeds, and reading the tokens
\* written, with T, succeeds, consumes them all and returns v with the undeclared
\* struct keys dropped and the numbers at the wire width of T.
RoundTrip ==
    (/\ codecPhase \in {"written", "read"}
     /\ codecCase.writer = "main"
     /\ SchemaValid(codecCase.type, codecCase.value))
    => /\ written.err = "nil"
       /\ codecPhase = "read"
            => /\ readback.err = "nil"
               /\ readback.rest = <<>>
               /\ readback.val = Normalize(codecCase.type, codecCase.value)

RoundTripSeen ==
    /\ codecPhase = "read"
    /\ codecCase.writer = "main"
    /\ codecCase.type = Ty("User")
    /\ SchemaValid(codecCase.type, codecCase.value)
    /\ DOMAIN codecCase.value.m = {"id", "name", "color", "junk"}
    /\ DOMAIN readback.val.m = {"id", "name", "color"}
    /\ readback.val.m["id"] = VInt("int64", 42)

\* C6: a struct written with fields the reader's struct does not declare, between
\* the fields it declares, is read without error and to its end; the result has the
\* declared fields that were written, each with its value, and no other key.
UnknownFieldsSkipped ==
    (codecPhase = "read" /\ codecCase.writer = "peer")
    => /\ readback.err = "nil"
       /\ readback.rest = <<>>
       /\ readback.val = Normalize(Ty("User"), codecCase.value)
       /\ DOMAIN readback.val.m = DOMAIN codecCase.value.m \cap {"id", "name", "color"}

UnknownFieldsSeen ==
    /\ codecPhase = "read"
    /\ codecCase.writer = "peer"
    /\ DOMAIN codecCase.value.m = {"id", "extra", "name", "pt", "tags", "scores", "color"}
    /\ Len(codecCase.value.m["tags"].l) = 2
    /\ DOMAIN readback.val.m = {"id", "name", "color"}
    /\ readback.val.m["color"] = VInt("int32", 1)

\* the names of the field frames of the outermost struct of a token sequence, in the
\* order written
RECURSIVE TopFieldNames(_, _, _)
TopFieldNames(out, i, depth) ==
    IF i > Len(out) THEN <<>>
    ELSE CASE out[i].op = "StructBegin" -> TopFieldNames(out, i + 1, depth + 1)
           [] out[i].op = "StructEnd" -> TopFieldNames(out, i + 1, depth - 1)
           [] out[i].op = "FieldBegin" /\ depth = 1 ->
                <<out[i].name>> \o TopFieldNames(out, i + 1, depth)
           [] OTHER -> TopFieldNames(out, i + 1, depth)

\* every result of writing the value with the type is a success
Writes(T, v) == \A w \in WriteValue(ReaderSvc, T, v) : w.err = "nil"

\* C7: writing a mapping that lacks a declared non-optional field of its struct
\* fails, with the required-field error when the declared fields before the first
\* one lacking are written; writing a mapping that lacks only optional fields, the
\* values it has being writable, succeeds with a field frame for each declared field
\* the mapping has, in declaration order, and none for an absent one.
RequiredFieldEnforced ==
    (/\ codecPhase \in {"written", "read"}
     /\ codecCase.writer = "main"
     /\ LookupType(ReaderSvc.Types, codecCase.type.Name) = "STRUCT"
     /\ codecCase.type.Name \in DOMAIN ReaderSvc.Structs
     /\ codecCase.value.k = "map")
    => LET fields == ReaderSvc.Structs[codecCase.type.Name].Fields
           m == codecCase.value.m
           has(i) == fields[i].Name \in DOMAIN m
           lacking == {i \in DOMAIN fields : ~fields[i].Optional /\ ~has(i)}
           writable(i) == has(i) => Writes(fields[i].Type, m[fields[i].Name])
       IN  /\ lacking # {}
                => /\ written.err # "nil"
                   /\ (\A j \in DOMAIN fields :
                          (\A i \in lacking : j < i) => writable(j))
                        => written.err = "fieldRequired"
           /\ (lacking = {} /\ \A i \in DOMAIN fields : writable(i))
                => /\ written.err = "nil"
                   /\ TopFieldNames(written.out, 1, 0)
                        = SelectSeq([i \in DOMAIN fields |-> fields[i].Name],
                                    LAMBDA name : name \in DOMAIN m)

RequiredFieldMissingSeen ==
    /\ codecPhase = "written"
    /\ codecCase.writer = "main"
    /\ codecCase.type = Ty("User")
    /\ codecCase.value.k = "map"
    /\ DOMAIN codecCase.value.m = {"name", "color"}
    /\ written.err = "fieldRequired"

\* C9 as stated: a string that parses as a base-10 integer, written with a type of
\* tag I16, I32 or I64, reads back as the integer it parses to; a string that does
\* not parse makes the write fail with the conversion error and nothing written.
StringWritesAsParsedInteger ==
    (/\ codecPhase \in {"written", "read"}
     /\ codecCase.writer = "main"
     /\ LookupType(ReaderSvc.Types, codecCase.type.Name) \in {"I16", "I32", "I64"}
     /\ codecCase.value.k = "string")
    => IF ParseInt(codecCase.value.s).ok
       THEN /\ written.err = "nil"
            /\ codecPhase = "read"
                 => /\ readback.err = "nil"
                    /\ readback.val.k \in {"int16", "int32", "int64"}
                    /\ readback.val.i = ParseInt(codecCase.value.s).v
       ELSE written.err = "cannotConvert" /\ written.out = <<>>

\* C9, amended: the string reads back as the integer it parses to reduced to the
\* signed width of the tag, which is that integer when it lies in the range of the
\* tag ("42" into an I32 reads back 42); a string that does not parse makes the
\* write fail with the conversion error and nothing written.
StringWritesAsNarrowedInteger ==
    (/\ codecPhase \in {"written", "read"}
     /\ codecCase.writer = "main"
     /\ LookupType(ReaderSvc.Types, codecCase.type.Name) \in {"I16", "I32", "I64"}
     /\ codecCase.value.k = "string")
    => LET tag == LookupType(ReaderSvc.Types, codecCase.type.Name)
           parsed == ParseInt(codecCase.value.s)
       IN  IF parsed.ok
           THEN /\ written.err = "nil"
                /\ codecPhase = "read"
                     => /\ readback.err = "nil"
                        /\ readback.rest = <<>>
                        /\ readback.val =
                              CASE tag = "I16" -> VInt("int16", Narrow16(parsed.v))
                                [] tag = "I32" -> VInt("int32", parsed.v)
                                [] tag = "I64" -> VInt("int64", parsed.v)
                        /\ (tag = "I16" /\ parsed.v \in -32768..32767)
                             => readback.val.i = parsed.v
                        /\ (tag = "I32" /\ codecCase.value.s = "42")
                             => readback.val = VInt("int32", 42)
           ELSE /\ written.err = "cannotConvert"
                /\ written.out = <<>>
                /\ codecCase.value.s \in {"abc", "4a", "-", "", "1.5"}

StringOutOfRangeSeen ==
    /\ codecPhase = "read"
    /\ codecCase.writer = "main"
    /\ codecCase.type = Ty("i16")
    /\ codecCase.value = VStr("40000")
    /\ readback.val = VInt("int16", -25536)

\* C26: writing an integer, or a string that parses as one, with a type of tag I16
\* or I32 succeeds and writes one token of that tag: the integer of the signed range
\* of the width that is congruent to the value modulo 2^16 or 2^32 (for I32 the low
\* word of the value), which is the value itself when the value lies in the range.
IntegerNarrowing ==
    (/\ codecPhase \in {"written", "read"}
     /\ codecCase.writer = "main"
     /\ LookupType(ReaderSvc.Types, codecCase.type.Name) \in {"I16", "I32"}
     /\ \/ codecCase.value.k \in IntegerKinds
        \/ codecCase.value.k = "string" /\ ParseInt(codecCase.value.s).ok)
    => LET tag == LookupType(ReaderSvc.Types, codecCase.type.Name)
           v == codecCase.value
           hi == IF v.k = "string" THEN ParseInt(v.s).hi ELSE HighWord(v)
           lo == IF v.k = "string" THEN ParseInt(v.s).v ELSE v.i
       IN  /\ written.err = "nil"
           /\ Len(written.out) = 1
           /\ written.out[1].op = tag
           /\ DOMAIN written.out[1] = {"op", "i"}
           /\ tag = "I16"
                => /\ written.out[1].i \in -32768..32767
                   /\ written.out[1].i % 65536 = lo % 65536
                   /\ (hi = 0 /\ lo \in -32768..32767) => written.out[1].i = lo
           /\ tag = "I32" => written.out[1].i = lo

IntegerWrappedSeen ==
    /\ codecPhase = "read"
    /\ codecCase.type = Ty("i32")
    /\ codecCase.value = VWide("int64", 1, 1)
    /\ written = [out |-> <<[op |-> "I32", i |-> 1]>>, err |-> "nil"]
    /\ readback.val = VInt("int32", 1)

(***************************************************************************)
(* Properties of the registry (checked under SpecRegistry).  The Types of  *)
(* every Service returned is the package-level map, so what a Service      *)
(* resolves a name to is LookupType on defultTypeNameMap.                  *)
(***************************************************************************)
\* the names a schema document gives a tag of their own: the built-in names and its
\* enum, struct and exception names
TaggedNames(thrift) ==
    BuiltinNames \cup thrift.Enums \cup DOMAIN thrift.Structs \cup DOMAIN thrift.Exceptions

\* C8: in every Service returned, a typedef whose target is a built-in, enum, struct
\* or exception name of its schema resolves to the tag its target resolves to; and a
\* construction from a schema with a typedef whose target is neither a built-in name
\* nor a name the schema declares returns an error and no Service.
TypedefResolution ==
    /\ \A svc \in services :
          \A n \in DOMAIN Thrifts[svc.thrift].Typedefs :
              LET target == Thrifts[svc.thrift].Typedefs[n].Name
              IN  target \in TaggedNames(Thrifts[svc.thrift])
                    => LookupType(defultTypeNameMap, n)
                         = LookupType(defultTypeNameMap, target)
    /\ (/\ lastNew.thrift \in ThriftIds
        /\ lastNew.name \in DOMAIN Thrifts[lastNew.thrift].Services
        /\ \E n \in DOMAIN Thrifts[lastNew.thrift].Typedefs :
              Thrifts[lastNew.thrift].Typedefs[n].Name
                \notin BuiltinNames \cup Declared(Thrifts[lastNew.thrift]))
       => lastNew.err = "typeNotFound" /\ lastNew.service = NoService

\* C10: in every Service returned, a name that is neither built in nor declared by
\* the schema the Service was built from resolves to STOP, whatever was constructed
\* before or after it.
UndeclaredNamesResolveToStop ==
    \A svc \in services :
        \A n \in AllNames \ (BuiltinNames \cup Declared(Thrifts[svc.thrift])) :
            LookupType(defultTypeNameMap, n) = "STOP"

\* C11: once a Service has been returned, no step changes what it resolves a name
\* to, nor the package-level table of the built-in names.
RegistryNeverMutated ==
    [][services # {}
         => /\ \A n \in AllNames :
                  LookupType(defultTypeNameMap', n) = LookupType(defultTypeNameMap, n)
            /\ defultTypeNameMap' = defultTypeNameMap]_vars

\* C12: a call writes message-begin, and flushes, only on an output transport that
\* is open, and reads the response only from an input transport that is open: a
\* transport found closed is opened first.  When the open fails the call returns
\* that error, having written nothing, flushed nothing and read nothing.
LazyReconnect ==
    lastCall.client # ""
    => /\ (lastCall.out # <<>> \/ lastCall.didFlush) => lastCall.openAtSend
       /\ (lastCall.wire # <<>> \/ lastCall.consumed > 0
              \/ lastCall.at \notin {"send.Open", "send", "recv.Open"})
            => lastCall.openAtRecv
       /\ lastCall.at = "send.Open" <=> (~lastCall.wasOpen /\ ~lastCall.openOk)
       /\ lastCall.at = "send.Open"
            => /\ lastCall.err = Error("openFailed")
               /\ lastCall.val = VNil
               /\ lastCall.out = <<>>
               /\ ~lastCall.didFlush
               /\ lastCall.wire = <<>>
               /\ lastCall.consumed = 0
               /\ ~clients[lastCall.client].open

\* a call made after Close, which reopened the transport and returned a value
CallAfterCloseSeen ==
    /\ lastCall.client = "c1"
    /\ ~lastCall.wasOpen
    /\ clients["c1"].calls = 2
    /\ Len(clients["c1"].sent) = 2
    /\ lastCall.openAtSend
    /\ lastCall.openAtRecv
    /\ lastCall.didFlush
    /\ lastCall.at = "return"
    /\ lastCall.val # VNil

\* the token sequences that write each declared argument, in declared order, from
\* the positional argument at the place its ID names
RECURSIVE ArgumentFrames(_, _, _)
ArgumentFrames(arguments, i, args) ==
    IF i > Len(arguments) THEN {<<>>}
    ELSE {w.out \o rest :
            w \in WriteField(ReaderSvc, arguments[i], args[arguments[i].ID]),
            rest \in ArgumentFrames(arguments, i + 1, args)}

\* C13: a call of a declared method that got past opening the transport.  With fewer
\* positional arguments than a declared argument's ID it fails in send, flushes
\* nothing and reads nothing, with the missing-argument error when the arguments
\* declared before that one were written.  With enough of them, all writable, the
\* request holds one field per declared argument, in declared order, each written
\* from the position its ID names, whatever positional arguments follow.
ArgumentMatching ==
    (/\ lastCall.client # ""
     /\ lastCall.at # "send.Open"
     /\ lastCall.method \in DOMAIN SvcMethods)
    => LET arguments == SvcMethods[lastCall.method].Arguments
           args == lastCall.args
           short == {i \in DOMAIN arguments : arguments[i].ID > Len(args)}
           writable(i) == Writes(arguments[i].Type, args[arguments[i].ID])
       IN  /\ short # {}
                => /\ lastCall.err # NoError
                   /\ lastCall.at = "send"
                   /\ ~lastCall.didFlush
                   /\ lastCall.flushed = <<>>
                   /\ lastCall.wire = <<>>
                   /\ lastCall.consumed = 0
                   /\ lastCall.val = VNil
                   /\ (\A j \in DOMAIN arguments :
                          (\A i \in short : j < i) => writable(j))
                        => lastCall.err = Error("argNotExists")
           /\ (short = {} /\ \A i \in DOMAIN arguments : writable(i))
                => /\ lastCall.didFlush
                   /\ Len(lastCall.out) >= 5
                   /\ lastCall.out[1].op = "MessageBegin"
                   /\ lastCall.out[2].op = "StructBegin"
                   /\ SubSeq(lastCall.out, 3, Len(lastCall.out) - 3)
                        \in ArgumentFrames(arguments, 1, args)
                   /\ SubSeq(lastCall.out, Len(lastCall.out) - 2, Len(lastCall.out))
                        = <<[op |-> "FieldStop"], [op |-> "StructEnd"],
                            [op |-> "MessageEnd"]>>

\* a call with one positional argument of a method whose first declared argument
\* has ID 2
MissingArgumentSeen ==
    /\ lastCall.method = "swap"
    /\ Len(lastCall.args) = 1
    /\ lastCall.at = "send"
    /\ lastCall.err = Error("argNotExists")
    /\ ~lastCall.didFlush

\* C14: a call of a method the service does not declare, once the transport is open,
\* returns the unknown-method error, flushes nothing and reads nothing, and leaves
\* nothing of itself in the session for a later call to send.
UnknownMethodFailsOnlyItsCall ==
    (/\ lastCall.client # ""
     /\ lastCall.at # "send.Open"
     /\ lastCall.method \notin DOMAIN SvcMethods)
    => /\ lastCall.err = Error("methodNotExists")
       /\ lastCall.at = "send"
       /\ ~lastCall.didFlush
       /\ lastCall.wire = <<>>
       /\ lastCall.consumed = 0
       /\ clients[lastCall.client].outBuf = <<>>

\* C15: a call of a method without a return type, answered under its sequence id by
\* a response struct that holds only the stop marker, returns no value and no
\* error, having consumed the message-begin and the stop marker and nothing else.
VoidReturnSucceeds ==
    (/\ lastCall.didFlush
     /\ lastCall.method \in {"ping", "hush"}
     /\ lastCall.envelope = [name |-> lastCall.method, kind |-> "REPLY",
                              seq |-> lastCall.seqId]
     /\ Tail(lastCall.wire) = <<[op |-> "FieldStop"]>>)
    => /\ ~crashed
       /\ lastCall.err = NoError
       /\ lastCall.val = VNil
       /\ lastCall.at = "return"
       /\ lastCall.consumed = 2

\* C16: a call that returns from a REPLY has consumed the whole response: the result
\* field, every field after it and the stop marker.
ResponseReadToStop ==
    (/\ lastCall.at = "return"
     /\ lastCall.envelope.kind = "REPLY"
     /\ lastCall.envelope.name = lastCall.method)
    => lastCall.consumed = Len(lastCall.wire)

\* C19: the response of a call is decoded with the descriptor of the method that was
\* called, whatever method name the response carries: a REPLY under the call's
\* sequence id yields what ReadResponse yields for the called method.
ResponseNameNotUsed ==
    (/\ lastCall.didFlush
     /\ lastCall.method \in DOMAIN SvcMethods
     /\ lastCall.envelope.kind = "REPLY"
     /\ lastCall.envelope.seq = lastCall.seqId)
    => LET r == RecvResponse(
                    ReadResponse(ServiceOf(defultTypeNameMap,
                                           clients[lastCall.client].service),
                                 lastCall.method, Tail(lastCall.wire)),
                    lastCall.envelope)
       IN  /\ lastCall.val = r.val
           /\ lastCall.err = r.err
           /\ lastCall.err # Error("methodNotExists")

\* C20: a REPLY whose first field index lies outside 0..N, N the number of
\* exceptions the method declares, makes the call return an error: it does not
\* crash and it returns no value.
IndexOutsideRangeIsError ==
    (/\ lastCall.didFlush
     /\ lastCall.method \in DOMAIN SvcMethods
     /\ lastCall.envelope = [name |-> lastCall.method, kind |-> "REPLY",
                              seq |-> lastCall.seqId]
     /\ Len(lastCall.wire) >= 2
     /\ lastCall.wire[2].op = "FieldBegin"
     /\ lastCall.wire[2].id \notin 0..Len(SvcMethods[lastCall.method].Exceptions))
    => /\ ~crashed
       /\ lastCall.err \notin {NoError, Error("panic")}
       /\ lastCall.val = VNil

\* C18: a value whose type resolves to SET is written and read like a LIST: writing
\* an ordered sequence of integers with set<i32> succeeds with a header and one
\* value per element, reading that wire with set<i32> returns the sequence, and
\* neither path reports an unsupported type.
SetHandledLikeList ==
    (/\ codecPhase \in {"written", "read"}
     /\ codecCase.type = SetOf(Ty("i32"))
     /\ codecCase.value.k = "list"
     /\ \A i \in DOMAIN codecCase.value.l : codecCase.value.l[i].k = "int")
    => /\ written.err = "nil"
       /\ Len(Wire(written.out)) = 1 + Len(codecCase.value.l)
       /\ \A w \in WriteValue(ReaderSvc, ListOf(Ty("i32")), codecCase.value) :
             LET r == ReadValue(ReaderSvc, SetOf(Ty("i32")), Wire(w.out))
             IN  r.err = "nil" /\ r.val = codecCase.value

\* the frames open after the tokens of out from the i-th on, innermost last, or
\* <<"bad">> when a token closes a frame that is not the innermost open one, a field
\* or a stop marker stands outside a struct or after its stop marker, a struct ends
\* without a stop marker or a value stands outside a field, map or list
RECURSIVE OpenFrames(_, _, _)
OpenFrames(out, i, stack) ==
    IF i > Len(out) THEN stack
    ELSE LET op == out[i].op
             n == Len(stack)
             top == IF n = 0 THEN "" ELSE stack[n]
             pop == SubSeq(stack, 1, n - 1)
         IN  CASE op = "MessageBegin" ->
                    IF n = 0 THEN OpenFrames(out, i + 1, <<"Message">>) ELSE <<"bad">>
               [] op = "MessageEnd" ->
                    IF top = "Message" THEN OpenFrames(out, i + 1, pop) ELSE <<"bad">>
               [] op = "StructBegin" ->
                    IF top \in {"Message", "Field", "Map", "List"}
                    THEN OpenFrames(out, i + 1, Append(stack, "Struct"))
                    ELSE <<"bad">>
               [] op = "FieldBegin" ->
                    IF top = "Struct" THEN OpenFrames(out, i + 1, Append(stack, "Field"))
                    ELSE <<"bad">>
               [] op = "FieldEnd" ->
                    IF top = "Field" THEN OpenFrames(out, i + 1, pop) ELSE <<"bad">>
               [] op = "FieldStop" ->
                    IF top = "Struct" THEN OpenFrames(out, i + 1, Append(pop, "Stopped"))
                    ELSE <<"bad">>
               [] op = "StructEnd" ->
                    IF top = "Stopped" THEN OpenFrames(out, i + 1, pop) ELSE <<"bad">>
               [] op = "MapBegin" ->
                    IF top \in {"Field", "Map", "List"}
                    THEN OpenFrames(out, i + 1, Append(stack, "Map"))
                    ELSE <<"bad">>
               [] op = "MapEnd" ->
                    IF top = "Map" THEN OpenFrames(out, i + 1, pop) ELSE <<"bad">>
               [] op = "ListBegin" ->
                    IF top \in {"Field", "Map", "List"}
                    THEN OpenFrames(out, i + 1, Append(stack, "List"))
                    ELSE <<"bad">>
               [] op = "ListEnd" ->
                    IF top = "List" THEN OpenFrames(out, i + 1, pop) ELSE <<"bad">>
               [] OTHER ->
                    IF top \in {"Field", "Map", "List"} THEN OpenFrames(out, i + 1, stack)
                    ELSE <<"bad">>

\* the positions in out of the field-begin tokens of the outermost struct, in order
RECURSIVE ArgumentHeaders(_, _, _)
ArgumentHeaders(out, i, depth) ==
    IF i > Len(out) THEN <<>>
    ELSE LET op == out[i].op
         IN  IF op = "StructBegin" THEN ArgumentHeaders(out, i + 1, depth + 1)
             ELSE IF op = "StructEnd" THEN ArgumentHeaders(out, i + 1, depth - 1)
             ELSE IF op = "FieldBegin" /\ depth = 1
                  THEN <<out[i]>> \o ArgumentHeaders(out, i + 1, depth)
                  ELSE ArgumentHeaders(out, i + 1, depth)

\* C17: a call whose send succeeded wrote message-begin(method, CALL, seq id) first
\* and once, then struct-begin, one field group per declared argument in declared
\* order, field-stop, struct-end and message-end last and once; every begin token
\* is closed by its end token in nesting order and every struct holds one stop
\* marker after its last field; the flush precedes any read, and a successful call
\* is such a call.
RequestOperationOrder ==
    /\ (lastCall.at = "return" \/ lastCall.consumed > 0) => lastCall.didFlush
    /\ lastCall.didFlush =>
          LET out == lastCall.out
              n == Len(out)
              arguments == SvcMethods[lastCall.method].Arguments
              headers == ArgumentHeaders(out, 1, 0)
          IN  /\ lastCall.method \in DOMAIN SvcMethods
              /\ n >= 5
              /\ out[1] = [op |-> "MessageBegin", name |-> lastCall.method,
                            kind |-> "CALL", seq |-> lastCall.seqId]
              /\ out[2].op = "StructBegin"
              /\ out[n - 2].op = "FieldStop"
              /\ out[n - 1].op = "StructEnd"
              /\ out[n].op = "MessageEnd"
              /\ \A i \in 2..n : out[i].op # "MessageBegin"
              /\ \A i \in 1..(n - 1) : out[i].op # "MessageEnd"
              /\ Len(headers) = Len(arguments)
              /\ \A i \in DOMAIN arguments :
                    /\ headers[i].id = arguments[i].ID
                    /\ headers[i].name = arguments[i].Name
              /\ OpenFrames(out, 1, <<>>) = <<>>

NestedRequestSucceeded ==
    /\ lastCall.at = "return"
    /\ lastCall.err = NoError
    /\ lastCall.method = "swap"
    /\ lastCall.envelope.name = "swap"
    /\ \E i \in DOMAIN lastCall.out : lastCall.out[i].op = "MapEnd"
    /\ \E i \in DOMAIN lastCall.out : lastCall.out[i].op = "ListEnd"
    /\ lastCall.consumed > 0

\* C21: the coercion table of the write path: a boolean is accepted for BOOL and for
\* no other tag; a string is written as it is for STRING; and for each of BYTE,
\* I16, I32, I64 and DOUBLE an integer of any width, a floating-point value and a
\* string that parses as a number of the tag's kind are written without error.
CoercionTable ==
    (codecPhase \in {"written", "read"} /\ codecCase.type \in ScalarTypes)
    => LET tag == LookupType(MainTypes, codecCase.type.Name)
           v == codecCase.value
           number == v.k \in SignedKinds \cup UnsignedKinds \cup FloatKinds
       IN  /\ v.k = "bool" => (written.err = "nil" <=> tag = "BOOL")
           /\ (v.k = "string" /\ tag = "STRING")
                => written = [out |-> <<[op |-> "String", s |-> v.s]>>, err |-> "nil"]
           /\ (/\ tag \in {"BYTE", "I16", "I32", "I64"}
               /\ number \/ (v.k = "string" /\ ParseInt(v.s).ok))
                => written.err = "nil"
           /\ (/\ tag = "DOUBLE"
               /\ number \/ (v.k = "string" /\ ParseFloat(v.s).ok))
                => written.err = "nil"

\* C22: an error of a codec operation ends the call with an error and is the call's
\* last codec operation: a send that failed wrote no message-end and flushed
\* nothing, and a response token whose read fails (a string with a negative length
\* prefix) is the last token the call consumes and makes the call return an error.
ErrorsPropagate ==
    /\ (lastCall.at = "send")
         => /\ lastCall.err # NoError
            /\ ~lastCall.didFlush
            /\ lastCall.consumed = 0
            /\ \A i \in DOMAIN lastCall.out : lastCall.out[i].op # "MessageEnd"
    /\ \A i \in 1..lastCall.consumed :
          lastCall.wire[i].op = "StringBadLength"
            => /\ lastCall.err # NoError
               /\ lastCall.val = VNil
               /\ lastCall.consumed = i

\* the name a chain of typedefs of the schema ends in, followed for at most fuel steps
RECURSIVE UltimateTarget(_, _, _)
UltimateTarget(thrift, n, fuel) ==
    IF n \in DOMAIN thrift.Typedefs /\ fuel > 0
    THEN UltimateTarget(thrift, thrift.Typedefs[n].Name, fuel - 1)
    ELSE n

\* the tag of a built-in, enum, struct or exception name of the schema
ProperTag(thrift, n) ==
    IF n \in thrift.Enums THEN "I32"
    ELSE IF n \in DOMAIN thrift.Structs \cup DOMAIN thrift.Exceptions THEN "STRUCT"
    ELSE BuiltinTypeNameMap[n]

\* the schemas in which a typedef has a typedef for its target
Chained ==
    {id \in ThriftIds :
        \E n \in DOMAIN Thrifts[id].Typedefs :
            Thrifts[id].Typedefs[n].Name \in DOMAIN Thrifts[id].Typedefs}

\* C25: a construction from a schema with chained typedefs that returns a Service,
\* in whatever order the typedefs were visited and whatever was attempted before it
\* in the process, has resolved every typedef to the tag of the built-in, enum,
\* struct or exception name its chain ends in.
ChainedTypedefsResolved ==
    (lastNew.thrift \in Chained /\ lastNew.service # NoService)
    => /\ lastNew.err = "nil"
       /\ \A n \in DOMAIN Thrifts[lastNew.thrift].Typedefs :
             LET thrift == Thrifts[lastNew.thrift]
                 end == UltimateTarget(thrift, n, Cardinality(DOMAIN thrift.Typedefs))
             IN  /\ end \in TaggedNames(thrift)
                 /\ LookupType(defultTypeNameMap, n) = ProperTag(thrift, end)

\* C24: the sequence ids the calls of one session wrote are pairwise distinct, and a
\* REPLY that carries the sequence id an earlier call of the session wrote makes the
\* later call return the out-of-sequence error and no value.
StaleResponseRejected ==
    \A c \in Clients :
       LET sent == clients[c].sent
       IN  /\ \A i \in DOMAIN sent, j \in DOMAIN sent : i # j => sent[i] # sent[j]
           /\ (/\ lastCall.client = c
               /\ lastCall.didFlush
               /\ lastCall.envelope.kind = "REPLY"
               /\ \E i \in 1..(Len(sent) - 1) : lastCall.envelope.seq = sent[i])
              => /\ lastCall.err = NewTApplicationException(4, "Response out of sequence")
                 /\ lastCall.val = VNil

(***************************************************************************)
(* Properties of concurrent calls (checked under SpecRace).                *)
(***************************************************************************)
IsPrefix(a, b) == Len(a) <= Len(b) /\ a = SubSeq(b, 1, Len(a))

\* the wire form of the request goroutine g sends when it runs alone
RequestOf(g) ==
    Wire((CHOOSE w \in SendOpen(ReaderSvc, 1, RaceInputs[g].method, RaceInputs[g].args) :
             TRUE).out)

\* what goroutine g's call returns when it runs alone
AloneResult(g) ==
    RecvOpen(ReaderSvc, 1,
             <<[op |-> "MessageBegin", name |-> RaceInputs[g].method, kind |-> "REPLY",
                seq |-> 1]>> \o ReplyFor(RaceInputs[g].method))

\* C23: a call that runs on a session of its own, concurrently with calls on another
\* session, is not touched by them: what the session's socket and output buffer carry is a prefix of its own
\* call's request, the call's copy of the counter holds its own increment only, the
\* session's counter is what it was, and the call reads its own response and returns
\* what it returns when it runs alone.
SessionsIsolated ==
    \A g \in Goroutines :
       (\A h \in Goroutines \ {g} : goroutines[h].client # goroutines[g].client)
       => LET gr == goroutines[g]
              c == gr.client
          IN  /\ IsPrefix(sockets[SocketOf(c)].sent \o clients[c].outBuf, RequestOf(g))
              /\ gr.SeqId = IF gr.pc = "call" THEN 0 ELSE 1
              /\ clients[c].SeqId = 0
              /\ gr.pc \in {"body", "done"}
                   => gr.envelope = [name |-> gr.method, kind |-> "REPLY", seq |-> gr.SeqId]
              /\ gr.pc = "done"
                   => gr.val = AloneResult(g).val /\ gr.err = AloneResult(g).err

\* two calls on one session whose requests reached the socket interleaved (a second
\* message begins before the argument struct of the first is closed), beside a call
\* on the other session that has returned its own result
InterleavedOnOneSession ==
    /\ goroutines["g1"].client = goroutines["g2"].client
    /\ goroutines["g3"].client # goroutines["g1"].client
    /\ goroutines["g3"].pc = "done"
    /\ goroutines["g3"].err = NoError
    /\ goroutines["g3"].val # VNil
    /\ goroutines["g3"].val = AloneResult("g3").val
    /\ LET st == sockets[SocketOf(goroutines["g1"].client)].sent
       IN  \E i \in DOMAIN st, j \in DOMAIN st :
              /\ i < j
              /\ st[i].op = "MessageBegin"
              /\ st[j].op = "MessageBegin"
              /\ \A n \in i..j : st[n].op # "FieldStop"
====
